---- MODULE Spec2Model ----
(***************************************************************************)
(* Frequency-map builders and lookup engines of the Path-of-Least-         *)
(* Resistance repository.  Every script of the repository is a separate    *)
(* single-threaded program; `script` selects which one runs.               *)
(* Spec covers the builders and the lookup engines, AnalysisSpec the        *)
(* analysis loops that run the v16.0 prediction over the prime list.        *)
(*                                                                         *)
(* Numbers.  A score is a Python float (or int).  It is modelled as the    *)
(* reduced fraction [n, d] of the exact value; float('inf') is [1, 0].     *)
(* Python indexes lists from 0, TLA+ sequences from 1: At(list, i) is      *)
(* list[i] of the source.                                                  *)
(***************************************************************************)
EXTENDS Integers, Sequences, FiniteSets, TLC

(* ------------------------------ bounds -------------------------------- *)
\* largest MAX_PRIME_PAIRS_TO_TEST a run is configured with
MaxPairs == 7
\* the search radius of the nearest-prime loop (the literal 2000 of the
\* source, scaled to the size of the prime files of this model)
SearchRadius == 12
\* largest anchor handed to a scoring function
MaxAnchor == 31

(* ------------------------- program constants -------------------------- *)
GAP_BIN_SMALL == 18
GAP_BIN_LARGE == 22
\* the "+ 10" of required_primes in load_primes_from_file
LoaderMargin == 10

(* The prime input file: the first 360 primes, one per line.  A run reads  *)
(* a prefix of it (a shorter file) or all of it.                           *)
AllPrimes == <<
    2, 3, 5, 7, 11, 13, 17, 19, 23, 29, 31, 37, 41, 43, 47,
    53, 59, 61, 67, 71, 73, 79, 83, 89, 97, 101, 103, 107, 109, 113,
    127, 131, 137, 139, 149, 151, 157, 163, 167, 173, 179, 181, 191, 193, 197,
    199, 211, 223, 227, 229, 233, 239, 241, 251, 257, 263, 269, 271, 277, 281,
    283, 293, 307, 311, 313, 317, 331, 337, 347, 349, 353, 359, 367, 373, 379,
    383, 389, 397, 401, 409, 419, 421, 431, 433, 439, 443, 449, 457, 461, 463,
    467, 479, 487, 491, 499, 503, 509, 521, 523, 541, 547, 557, 563, 569, 571,
    577, 587, 593, 599, 601, 607, 613, 617, 619, 631, 641, 643, 647, 653, 659,
    661, 673, 677, 683, 691, 701, 709, 719, 727, 733, 739, 743, 751, 757, 761,
    769, 773, 787, 797, 809, 811, 821, 823, 827, 829, 839, 853, 857, 859, 863,
    877, 881, 883, 887, 907, 911, 919, 929, 937, 941, 947, 953, 967, 971, 977,
    983, 991, 997, 1009, 1013, 1019, 1021, 1031, 1033, 1039, 1049, 1051, 1061, 1063, 1069,
    1087, 1091, 1093, 1097, 1103, 1109, 1117, 1123, 1129, 1151, 1153, 1163, 1171, 1181, 1187,
    1193, 1201, 1213, 1217, 1223, 1229, 1231, 1237, 1249, 1259, 1277, 1279, 1283, 1289, 1291,
    1297, 1301, 1303, 1307, 1319, 1321, 1327, 1361, 1367, 1373, 1381, 1399, 1409, 1423, 1427,
    1429, 1433, 1439, 1447, 1451, 1453, 1459, 1471, 1481, 1483, 1487, 1489, 1493, 1499, 1511,
    1523, 1531, 1543, 1549, 1553, 1559, 1567, 1571, 1579, 1583, 1597, 1601, 1607, 1609, 1613,
    1619, 1621, 1627, 1637, 1657, 1663, 1667, 1669, 1693, 1697, 1699, 1709, 1721, 1723, 1733,
    1741, 1747, 1753, 1759, 1777, 1783, 1787, 1789, 1801, 1811, 1823, 1831, 1847, 1861, 1867,
    1871, 1873, 1877, 1879, 1889, 1901, 1907, 1913, 1931, 1933, 1949, 1951, 1973, 1979, 1987,
    1993, 1997, 1999, 2003, 2011, 2017, 2027, 2029, 2039, 2053, 2063, 2069, 2081, 2083, 2087,
    2089, 2099, 2111, 2113, 2129, 2131, 2137, 2141, 2143, 2153, 2161, 2179, 2203, 2207, 2213,
    2221, 2237, 2239, 2243, 2251, 2267, 2269, 2273, 2281, 2287, 2293, 2297, 2309, 2311, 2333,
    2339, 2341, 2347, 2351, 2357, 2371, 2377, 2381, 2383, 2389, 2393, 2399, 2411, 2417, 2423 >>

BuilderScripts == {"test-11_mod30", "test-8_SAVE_MAP", "test-8_mod210", "test-10_mod6-Gap",
                   "2D-Messiness-Map"}
Categories == {"Small", "Medium", "Large"}

VARIABLES
    script,                   \* the script that runs
    prime_file,               \* PRIME_INPUT_FILE: [exists, lines]; it holds the first `lines` primes
    MAX_PRIME_PAIRS_TO_TEST,  \* configuration of the run
    START_INDEX,
    pc,                       \* position of the script
    prime_list, prime_set,    \* result of load_primes_from_file (<<>>, {} for None)
    i,                        \* loop index of the scan
    anchor_counts, failure_counts, total_law_I_failures,
    messiness_scores,         \* the map built by the report loop
    output_file,              \* OUTPUT_JSON_FILE: [exists, data]
    fatal,                    \* the FATAL ERROR diagnostic printed, "" when none
    engine_files,             \* the engine data files under data/: [exists, data] each
    MESSINESS_MAP_V_MOD6,     \* the module globals of the lookup engines: [is_none, dict]
    MESSINESS_MAP_V1_MOD30,
    MESSINESS_MAP_V3_MOD210,
    MESSINESS_MAP_V_MOD6_GAP,
    last_call,                \* the last call of a scoring function and what it returned
    total_predictions,        \* the tallies of the analysis loops
    total_v16_failures, total_v16_successes,
    failures_when_prev_anchor_is_CLEAN, failures_when_prev_anchor_is_MESSY,
    success_fingerprints, failure_fingerprints,  \* defaultdict(int): fingerprint -> count
    total_successes_baseline,        \* the two accuracy tallies of an engine comparison run
    total_successes_new_champ,       \* (v7/v11, v15/v16, v11/v23: baseline and challenger)
    total_v16_overrides_attempted,
    success_r_distribution, failure_r_distribution,   \* defaultdict(int): radius -> count
    total_success_and_clean, total_success_and_messy, \* the 2x2 correlation matrix
    total_failure_and_clean, total_failure_and_messy,
    call_p_n, call_candidates,  \* the arguments p_n, candidates of a prediction function
    call_scores,                \* the argument candidate_scores of get_winner_from_scores
    call_anchor_sn, call_prime_set,  \* the arguments anchor_sn, prime_set of get_pas_k_min
    call_examined,              \* the values search_dist took in the search loop
    call_result                 \* what the function returned

builderVars == <<prime_file, MAX_PRIME_PAIRS_TO_TEST, START_INDEX, prime_list,
                 prime_set, i, anchor_counts, failure_counts, total_law_I_failures,
                 messiness_scores, output_file, fatal>>
mapVars == <<MESSINESS_MAP_V_MOD6, MESSINESS_MAP_V1_MOD30, MESSINESS_MAP_V3_MOD210,
             MESSINESS_MAP_V_MOD6_GAP>>
runVars == <<total_successes_baseline, total_successes_new_champ,
             total_v16_overrides_attempted, success_r_distribution, failure_r_distribution,
             total_success_and_clean, total_success_and_messy, total_failure_and_clean,
             total_failure_and_messy, call_p_n, call_candidates, call_scores, call_anchor_sn,
             call_prime_set, call_examined, call_result>>
analysisVars == <<total_predictions, total_v16_failures, total_v16_successes,
                  failures_when_prev_anchor_is_CLEAN, failures_when_prev_anchor_is_MESSY,
                  success_fingerprints, failure_fingerprints, runVars>>
engineVars == <<engine_files, mapVars, last_call, analysisVars>>
vars == <<script, pc, builderVars, engineVars>>

(* ------------------------------ numbers ------------------------------- *)
RECURSIVE GCD(_, _)
GCD(a, b) == IF b = 0 THEN a ELSE GCD(b, a % b)

Rat(n, d) == [n |-> n \div GCD(n, d), d |-> d \div GCD(n, d)]
Inf == [n |-> 1, d |-> 0]
IsFinite(x) == x.d > 0

At(list, idx) == list[idx + 1]
Range(s) == {s[j] : j \in 1..Len(s)}

IsPrime(x) == x > 1 /\ \A q \in 2..(x - 1) : q * q > x \/ x % q # 0

(* ------------------------------ builders ------------------------------ *)
Modulus(s) == CASE s = "test-11_mod30" -> 30
                [] s = "test-8_SAVE_MAP" -> 210
                [] s = "test-8_mod210" -> 210
                [] s = "test-10_mod6-Gap" -> 6
                [] s = "2D-Messiness-Map" -> 30

IsCompound(s) == s \in {"test-10_mod6-Gap", "2D-Messiness-Map"}
\* mutant: every builder saves its map
Saves_mut(s) == s \in {"test-11_mod30", "test-8_SAVE_MAP", "test-8_mod210", "test-10_mod6-Gap",
                       "2D-Messiness-Map"}
Saves(s) == s \in {"test-11_mod30", "test-8_SAVE_MAP", "test-10_mod6-Gap"}

categorize_gap(gap_g_n) ==
    IF gap_g_n < GAP_BIN_SMALL THEN "Small"
    ELSE IF gap_g_n >= GAP_BIN_LARGE THEN "Large"
    ELSE "Medium"

KeyDomain(s) == IF IsCompound(s) THEN (0..(Modulus(s) - 1)) \X Categories
                ELSE 0..(Modulus(s) - 1)

BucketKey(s, anchor_S_n, gap_g_n) ==
    IF IsCompound(s) THEN <<anchor_S_n % Modulus(s), categorize_gap(gap_g_n)>>
    ELSE anchor_S_n % Modulus(s)

\* mutant: the margin of the length check is dropped
required_primes_mut == MAX_PRIME_PAIRS_TO_TEST + START_INDEX
required_primes == MAX_PRIME_PAIRS_TO_TEST + START_INDEX + LoaderMargin
\* mutant: the scan takes one index more
loop_end_index_mut == MAX_PRIME_PAIRS_TO_TEST + START_INDEX + 1
loop_end_index == MAX_PRIME_PAIRS_TO_TEST + START_INDEX

\* the while-True loop of the scan: the first search_dist in 1..SearchRadius
\* with anchor - search_dist or anchor + search_dist in pset, else 0
RECURSIVE NearestPrimeSearch(_, _, _)
NearestPrimeSearch(anchor_S_n, pset, search_dist) ==
    IF (anchor_S_n - search_dist) \in pset THEN search_dist
    ELSE IF (anchor_S_n + search_dist) \in pset THEN search_dist
    ELSE IF search_dist + 1 > SearchRadius THEN 0
    ELSE NearestPrimeSearch(anchor_S_n, pset, search_dist + 1)

is_k_composite(min_distance_k, pset) == (min_distance_k > 1) /\ (min_distance_k \notin pset)

anchor_at(idx) == At(prime_list, idx) + At(prime_list, idx + 1)
gap_at(idx) == At(prime_list, idx + 1) - At(prime_list, idx)
key_at(idx) == BucketKey(script, anchor_at(idx), gap_at(idx))

NoFile == [exists |-> FALSE, data |-> <<>>]
NoEngineFiles == [mod6 |-> NoFile, mod30 |-> NoFile, mod210 |-> NoFile, mod6gap |-> NoFile]
\* a module global that is None, and one that holds a dict
NoneMap == [is_none |-> TRUE, dict |-> <<>>]
LoadedMap(m) == [is_none |-> FALSE, dict |-> m]
\* the tallies before a loop starts
NoTallies ==
    /\ total_predictions = 0
    /\ total_v16_failures = 0
    /\ total_v16_successes = 0
    /\ failures_when_prev_anchor_is_CLEAN = 0
    /\ failures_when_prev_anchor_is_MESSY = 0
    /\ success_fingerprints = <<>>
    /\ failure_fingerprints = <<>>
    /\ total_successes_baseline = 0
    /\ total_successes_new_champ = 0
    /\ total_v16_overrides_attempted = 0
    /\ success_r_distribution = <<>>
    /\ failure_r_distribution = <<>>
    /\ total_success_and_clean = 0
    /\ total_success_and_messy = 0
    /\ total_failure_and_clean = 0
    /\ total_failure_and_messy = 0
\* no prediction function has been called on its own; 0 stands for "no value"
NoArguments ==
    /\ call_p_n = 0
    /\ call_candidates = <<>>
    /\ call_scores = <<>>
    /\ call_anchor_sn = 0
    /\ call_prime_set = {}
    /\ call_examined = <<>>
    /\ call_result = 0
\* no call yet; at_pc is the position of the script when the call was made
NoCall == [fn |-> "", anchor_sn |-> 0, gap_g_n |-> 0, at_pc |-> "", raised |-> "", ret |-> <<>>]
(* --------------------------- JSON text form --------------------------- *)
\* A string is the sequence of its symbols: one per digit, one for the comma,
\* one for a category word.
DigitChars == <<"0", "1", "2", "3", "4", "5", "6", "7", "8", "9">>

\* str(n) of a non-negative int
RECURSIVE IntToStr(_)
IntToStr(n) == IF n < 10 THEN <<DigitChars[n + 1]>>
               ELSE IntToStr(n \div 10) \o <<DigitChars[(n % 10) + 1]>>

DigitValue(c) == IF \E v \in 1..10 : DigitChars[v] = c
                 THEN (CHOOSE v \in 1..10 : DigitChars[v] = c) - 1
                 ELSE -1

\* int(s): the value of a digit string, -1 where int() raises ValueError
RECURSIVE StrToInt(_)
StrToInt(str) ==
    IF str = <<>> THEN -1
    ELSE IF DigitValue(str[Len(str)]) = -1 THEN -1
    ELSE IF Len(str) = 1 THEN DigitValue(str[1])
    ELSE IF StrToInt(SubSeq(str, 1, Len(str) - 1)) = -1 THEN -1
    ELSE 10 * StrToInt(SubSeq(str, 1, Len(str) - 1)) + DigitValue(str[Len(str)])

\* mutant: float('inf') is written as the number 0
ToJson_mut(x) == [tok |-> "number", val |-> IF x = Inf THEN Rat(0, 1) ELSE x]

\* json.dump of a float: the token Infinity for float('inf'), else its repr
ToJson(x) == IF x = Inf THEN [tok |-> "Infinity", val |-> Rat(0, 1)]
             ELSE [tok |-> "number", val |-> x]
\* json.load of a value
FromJson(j) == IF j.tok = "Infinity" THEN Inf ELSE j.val

\* the key text json.dump writes: str(residue) for an int key, and
\* f"{k[0]},{k[1]}" for the tuple keys of test-10
KeyText(compound, k) == IF compound THEN IntToStr(k[1]) \o <<",">> \o <<k[2]>>
                        ELSE IntToStr(k)

JsonDump(compound, m) ==
    [ks \in {KeyText(compound, k) : k \in DOMAIN m} |->
        ToJson(m[CHOOSE k \in DOMAIN m : KeyText(compound, k) = ks])]

(* ------------------------------ the run ------------------------------- *)
StartChoices == {0, 3, 10, 53, 97, 187}

PrimeFileLines == SubSeq(AllPrimes, 1, prime_file.lines)

\* mutant: the failures are divided by the anchors of the whole scan
FailureRate_mut(failures, total_anchors) == Rat(failures * 100, MAX_PRIME_PAIRS_TO_TEST)

\* failure_rate = (failures / total_anchors) * 100
FailureRate(failures, total_anchors) == Rat(failures * 100, total_anchors)

\* mutant: the else branch that stores float('inf') is missing
ReportSingle_mut(s) ==
    [residue \in {r \in 0..(Modulus(s) - 1) : anchor_counts[r] > 0} |->
        Rat(failure_counts[residue] * 100, anchor_counts[residue])]

\* the report loop of each builder
ReportSingle(s) ==
    [residue \in 0..(Modulus(s) - 1) |->
        IF anchor_counts[residue] > 0
        THEN FailureRate(failure_counts[residue], anchor_counts[residue])
        ELSE Inf]

\* test-8_mod210-Residue-Analysis keeps only the residues that have anchors
ReportPopulated(s) ==
    [residue \in {r \in 0..(Modulus(s) - 1) : anchor_counts[r] > 0} |->
        FailureRate(failure_counts[residue], anchor_counts[residue])]

\* mutant: the "if residue % 2 != 0: continue" is missing
ReportMod6Gap_mut ==
    [k \in (0..5) \X Categories |->
        IF anchor_counts[k] > 0
        THEN FailureRate(failure_counts[k], anchor_counts[k])
        ELSE Inf]

ReportMod6Gap ==
    [k \in {r \in 0..5 : r % 2 = 0} \X Categories |->
        IF anchor_counts[k] > 0
        THEN FailureRate(failure_counts[k], anchor_counts[k])
        ELSE Inf]

Report2D ==
    [k \in {kk \in (0..29) \X Categories :
                /\ \E c \in Categories : anchor_counts[<<kk[1], c>>] > 0
                /\ anchor_counts[kk] > 0} |->
        FailureRate(failure_counts[k], anchor_counts[k])]

Report(s) == CASE s = "test-10_mod6-Gap" -> ReportMod6Gap
               [] s = "2D-Messiness-Map" -> Report2D
               [] s = "test-8_mod210" -> ReportPopulated(s)
               [] OTHER -> ReportSingle(s)

BuilderInit ==
    /\ script \in BuilderScripts
    /\ MAX_PRIME_PAIRS_TO_TEST \in 1..MaxPairs
    /\ START_INDEX \in StartChoices
    /\ prime_file \in
          {[exists |-> FALSE, lines |-> 0]} \cup
          {[exists |-> TRUE, lines |-> n] :
              n \in {required_primes - 1, required_primes, Len(AllPrimes)}}
    /\ pc = "load"
    /\ prime_list = <<>>
    /\ prime_set = {}
    /\ i = 0
    /\ anchor_counts = [k \in KeyDomain(script) |-> 0]
    /\ failure_counts = [k \in KeyDomain(script) |-> 0]
    /\ total_law_I_failures = 0
    /\ messiness_scores = <<>>
    /\ output_file = NoFile
    /\ fatal = ""
    /\ engine_files = NoEngineFiles
    /\ MESSINESS_MAP_V_MOD6 = NoneMap
    /\ MESSINESS_MAP_V1_MOD30 = NoneMap
    /\ MESSINESS_MAP_V3_MOD210 = NoneMap
    /\ MESSINESS_MAP_V_MOD6_GAP = NoneMap
    /\ last_call = NoCall
    /\ NoTallies
    /\ NoArguments

\* mutant: the "too small" branch prints its diagnostic and does not return
LoadPrimes_mut ==
    /\ script \in BuilderScripts
    /\ UNCHANGED engineVars
    /\ pc = "load"
    /\ IF ~prime_file.exists
       THEN /\ fatal' = "prime file not found"
            /\ pc' = "returned"
            /\ UNCHANGED <<prime_list, prime_set, i>>
       ELSE /\ fatal' = IF Len(PrimeFileLines) < required_primes
                        THEN "prime file is too small" ELSE fatal
            /\ prime_list' = PrimeFileLines
            /\ prime_set' = Range(PrimeFileLines)
            /\ i' = START_INDEX
            /\ pc' = IF START_INDEX < loop_end_index THEN "scan_bin" ELSE "report"
    /\ UNCHANGED <<script, prime_file, MAX_PRIME_PAIRS_TO_TEST, START_INDEX, anchor_counts,
                   failure_counts, total_law_I_failures, messiness_scores, output_file>>

\* load_primes_from_file and the caller's "if prime_list is None: return"
LoadPrimes ==
    /\ script \in BuilderScripts
    /\ UNCHANGED engineVars
    /\ pc = "load"
    /\ IF ~prime_file.exists
       THEN /\ fatal' = "prime file not found"
            /\ pc' = "returned"
            /\ UNCHANGED <<prime_list, prime_set, i>>
       ELSE IF Len(PrimeFileLines) < required_primes
       THEN /\ fatal' = "prime file is too small"
            /\ pc' = "returned"
            /\ UNCHANGED <<prime_list, prime_set, i>>
       ELSE /\ prime_list' = PrimeFileLines
            /\ prime_set' = Range(PrimeFileLines)
            /\ i' = START_INDEX
            /\ pc' = IF START_INDEX < loop_end_index THEN "scan_bin" ELSE "report"
            /\ UNCHANGED fatal
    /\ UNCHANGED <<script, prime_file, MAX_PRIME_PAIRS_TO_TEST, START_INDEX, anchor_counts,
                   failure_counts, total_law_I_failures, messiness_scores, output_file>>

\* mutant: the anchor is counted under the residue of p_n, not of S_n
ScanBin_mut ==
    /\ script \in BuilderScripts
    /\ UNCHANGED engineVars
    /\ pc = "scan_bin"
    /\ IF i + 1 >= Len(prime_list)
       THEN /\ pc' = "IndexError"
            /\ UNCHANGED anchor_counts
       ELSE /\ anchor_counts' =
                   [anchor_counts EXCEPT ![BucketKey(script, At(prime_list, i), gap_at(i))] = @ + 1]
            /\ pc' = "scan_search"
    /\ UNCHANGED <<script, prime_file, MAX_PRIME_PAIRS_TO_TEST, START_INDEX, prime_list,
                   prime_set, i, failure_counts, total_law_I_failures, messiness_scores,
                   output_file, fatal>>

\* first half of an iteration: read the pair, classify it, count the anchor
ScanBin ==
    /\ script \in BuilderScripts
    /\ UNCHANGED engineVars
    /\ pc = "scan_bin"
    /\ IF i + 1 >= Len(prime_list)
       THEN /\ pc' = "IndexError"
            /\ UNCHANGED anchor_counts
       ELSE /\ anchor_counts' = [anchor_counts EXCEPT ![key_at(i)] = @ + 1]
            /\ pc' = "scan_search"
    /\ UNCHANGED <<script, prime_file, MAX_PRIME_PAIRS_TO_TEST, START_INDEX, prime_list,
                   prime_set, i, failure_counts, total_law_I_failures, messiness_scores,
                   output_file, fatal>>

\* second half: the nearest-prime search, the skip, the failure count
ScanSearch ==
    /\ script \in BuilderScripts
    /\ UNCHANGED engineVars
    /\ pc = "scan_search"
    /\ LET min_distance_k == NearestPrimeSearch(anchor_at(i), prime_set, 1)
       IN  IF min_distance_k # 0 /\ is_k_composite(min_distance_k, prime_set)
           THEN /\ total_law_I_failures' = total_law_I_failures + 1
                /\ failure_counts' = [failure_counts EXCEPT ![key_at(i)] = @ + 1]
           ELSE UNCHANGED <<total_law_I_failures, failure_counts>>
    /\ i' = i + 1
    /\ pc' = IF i + 1 < loop_end_index THEN "scan_bin" ELSE "report"
    /\ UNCHANGED <<script, prime_file, MAX_PRIME_PAIRS_TO_TEST, START_INDEX, prime_list,
                   prime_set, anchor_counts, messiness_scores, output_file, fatal>>

\* the loop over the residues that fills the messiness map
BuildReport ==
    /\ script \in BuilderScripts
    /\ UNCHANGED engineVars
    /\ pc = "report"
    /\ messiness_scores' = Report(script)
    /\ pc' = IF Saves(script) THEN "save" ELSE "done"
    /\ UNCHANGED <<script, prime_file, MAX_PRIME_PAIRS_TO_TEST, START_INDEX, prime_list,
                   prime_set, i, anchor_counts, failure_counts, total_law_I_failures,
                   output_file, fatal>>

\* json.dump to OUTPUT_JSON_FILE; open() may fail, which is caught and printed
SaveMap ==
    /\ script \in BuilderScripts
    /\ UNCHANGED engineVars
    /\ pc = "save"
    /\ \E ok \in BOOLEAN :
          output_file' = IF ok THEN [exists |-> TRUE, data |-> JsonDump(IsCompound(script), messiness_scores)]
                         ELSE output_file
    /\ pc' = "done"
    /\ UNCHANGED <<script, prime_file, MAX_PRIME_PAIRS_TO_TEST, START_INDEX, prime_list,
                   prime_set, i, anchor_counts, failure_counts, total_law_I_failures,
                   messiness_scores, fatal>>

(* ---------------- the engine reads the file a builder wrote ------------ *)
\* the module global that the lookup engines fill from each builder's file
\* (messiness_map_v1_mod30.json, messiness_map_v3_mod210.json,
\* messiness_map_v_mod6_gap.json, moved under data/)
ReadBackGlobal(s) == CASE s = "test-11_mod30" -> MESSINESS_MAP_V1_MOD30
                       [] s = "test-8_SAVE_MAP" -> MESSINESS_MAP_V3_MOD210
                       [] s = "test-10_mod6-Gap" -> MESSINESS_MAP_V_MOD6_GAP

(* --------------------------- lookup engines --------------------------- *)
LoaderScripts == {"PLR_conjecture_v_mod6", "PLR_conjecture_v_mod6_gap", "v11_weighted_gap",
                  "PLR-vs-PAS_Correlation"}
TableScripts == {"pac_diagnostic_engine", "pac_diagnostic_engine_v2", "pac_diagnostic_engine_v2_1"}
EngineScripts == LoaderScripts \cup TableScripts

\* dict.get(key, default)
DictGet(dict, key, default) == IF key \in DOMAIN dict THEN dict[key] ELSE default

RatAdd(x, y) == IF ~IsFinite(x) \/ ~IsFinite(y) THEN Inf
               ELSE Rat(x.n * y.d + y.n * x.d, x.d * y.d)
\* product of non-negative values, the second one positive
RatMul(x, y) == IF ~IsFinite(x) \/ ~IsFinite(y) THEN Inf ELSE Rat(x.n * y.n, x.d * y.d)

\* {int(k): v for k, v in data.items()}; int(k) raises ValueError on a bad key
HasBadIntKey(data) == \E ks \in DOMAIN data : StrToInt(ks) = -1
ParseSingle(data) ==
    [r \in {StrToInt(ks) : ks \in DOMAIN data} |->
        IF IntToStr(r) \in DOMAIN data THEN FromJson(data[IntToStr(r)])
        ELSE FromJson(data[CHOOSE ks \in DOMAIN data : StrToInt(ks) = r])]

\* k_str.split(','): two parts exactly when there is one comma
CommaPositions(str) == {j \in 1..Len(str) : str[j] = ","}
ResiduePart(str) == SubSeq(str, 1, (CHOOSE j \in CommaPositions(str) : TRUE) - 1)
CategoryPart(str) == SubSeq(str, (CHOOSE j \in CommaPositions(str) : TRUE) + 1, Len(str))
\* the category text is kept as it is read; text that is not one symbol is no category word
CategoryOf(str) == IF Len(CategoryPart(str)) = 1 THEN CategoryPart(str)[1] ELSE "<other text>"
GoodGapKey(ks) == Cardinality(CommaPositions(ks)) = 1 /\ StrToInt(ResiduePart(ks)) # -1
GapKeyOf(ks) == <<StrToInt(ResiduePart(ks)), CategoryOf(ks)>>
ParseGapEntries(data, keys) ==
    [k \in {GapKeyOf(ks) : ks \in keys} |->
        FromJson(data[CHOOSE ks \in keys : GapKeyOf(ks) = k])]

\* FAILURE_COUNTS_MOD_30 of pac_diagnostic_engine and pac_diagnostic_engine_v2
FAILURE_COUNTS_MOD_30 ==
    0 :> 9907 @@ 1 :> 0 @@ 2 :> 654113 @@ 3 :> 0 @@ 4 :> 431661 @@
    5 :> 0 @@ 6 :> 171547 @@ 7 :> 0 @@ 8 :> 662464 @@ 9 :> 0 @@
    10 :> 751163 @@ 11 :> 0 @@ 12 :> 199190 @@ 13 :> 0 @@ 14 :> 424448 @@
    15 :> 0 @@ 16 :> 426340 @@ 17 :> 0 @@ 18 :> 200139 @@ 19 :> 0 @@
    20 :> 749951 @@ 21 :> 0 @@ 22 :> 661166 @@ 23 :> 0 @@ 24 :> 171854 @@
    25 :> 0 @@ 26 :> 430955 @@ 27 :> 0 @@ 28 :> 654709 @@ 29 :> 0

K_DIV_3_PRONE_RESIDUES == {2, 4, 8, 10, 14, 16, 20, 22, 26, 28}
K_NOT_DIV_3_PRONE_RESIDUES == {2, 4, 6, 8, 12, 14, 16, 18, 22, 24, 26, 28}
GAP_FACTOR_PENALTY == Rat(125, 100)
GAP_FACTOR_BONUS == Rat(75, 100)
\* gap_g_n > OVERALL_AVG_GAP, with OVERALL_AVG_GAP = 19.6490 and an integer gap
IsLargeGap(gap_g_n) == gap_g_n * 10000 > 196490

\* MESSINESS_MAP_V2_1 of pac_diagnostic_engine_v2_1
MESSINESS_MAP_V2_1 ==
    <<0, "Small">> :> Rat(1468, 10000) @@ <<0, "Large">> :> Rat(1272, 10000) @@
    <<2, "Small">> :> Rat(329259, 10000) @@ <<2, "Large">> :> Rat(333726, 10000) @@
    <<4, "Small">> :> Rat(244134, 10000) @@ <<4, "Medium">> :> Rat(212283, 10000) @@
    <<4, "Large">> :> Rat(236586, 10000) @@ <<6, "Small">> :> Rat(34541, 10000) @@
    <<6, "Medium">> :> Rat(31766, 10000) @@ <<6, "Large">> :> Rat(31887, 10000) @@
    <<8, "Small">> :> Rat(319059, 10000) @@ <<8, "Large">> :> Rat(308648, 10000) @@
    <<10, "Small">> :> Rat(237988, 10000) @@ <<10, "Medium">> :> Rat(213690, 10000) @@
    <<10, "Large">> :> Rat(223325, 10000) @@ <<12, "Small">> :> Rat(40594, 10000) @@
    <<12, "Medium">> :> Rat(35175, 10000) @@ <<12, "Large">> :> Rat(33869, 10000) @@
    <<14, "Small">> :> Rat(229096, 10000) @@ <<14, "Medium">> :> Rat(210282, 10000) @@
    <<14, "Large">> :> Rat(224500, 10000) @@ <<16, "Small">> :> Rat(229340, 10000) @@
    <<16, "Medium">> :> Rat(211565, 10000) @@ <<16, "Large">> :> Rat(225176, 10000) @@
    <<18, "Small">> :> Rat(40784, 10000) @@ <<18, "Medium">> :> Rat(34875, 10000) @@
    <<18, "Large">> :> Rat(34216, 10000) @@ <<20, "Small">> :> Rat(237749, 10000) @@
    <<20, "Medium">> :> Rat(213136, 10000) @@ <<20, "Large">> :> Rat(223276, 10000) @@
    <<22, "Small">> :> Rat(319118, 10000) @@ <<22, "Large">> :> Rat(308288, 10000) @@
    <<24, "Small">> :> Rat(34560, 10000) @@ <<24, "Medium">> :> Rat(31808, 10000) @@
    <<24, "Large">> :> Rat(32031, 10000) @@ <<26, "Small">> :> Rat(244130, 10000) @@
    <<26, "Medium">> :> Rat(213267, 10000) @@ <<26, "Large">> :> Rat(234702, 10000) @@
    <<28, "Small">> :> Rat(329994, 10000) @@ <<28, "Large">> :> Rat(333786, 10000)
IMMUNITY_P5_SCORE == Rat(0, 1)
IMMUNITY_P4_SCORE == Rat(1, 10000)

Returned(values) == [raised |-> "", ret |-> values]

\* mutant: the Large bin starts above GAP_BIN_LARGE
categorize_gap_v_mod6_gap_mut(gap_g_n) ==
    IF gap_g_n < GAP_BIN_SMALL THEN "Small"
    ELSE IF gap_g_n > GAP_BIN_LARGE THEN "Large"
    ELSE "Medium"

\* the copy of categorize_gap in PLR_conjecture_v_mod6_gap (the file sets the
\* same GAP_BIN_SMALL = 18.0 and GAP_BIN_LARGE = 22.0)
categorize_gap_v_mod6_gap(gap_g_n) ==
    IF gap_g_n < GAP_BIN_SMALL THEN "Small"
    ELSE IF gap_g_n >= GAP_BIN_LARGE THEN "Large"
    ELSE "Medium"

\* the copy of categorize_gap in pac_diagnostic_engine_v2_1 (same bins)
categorize_gap_v2_1(gap_g_n) ==
    IF gap_g_n < GAP_BIN_SMALL THEN "Small"
    ELSE IF gap_g_n >= GAP_BIN_LARGE THEN "Large"
    ELSE "Medium"

get_messiness_score(anchor_sn) ==
    Returned(<<Rat(DictGet(FAILURE_COUNTS_MOD_30, anchor_sn % 30, 0), 1)>>)

get_messiness_score_v2(anchor_sn, gap_g_n) ==
    LET residue == anchor_sn % 30
        base_score == DictGet(FAILURE_COUNTS_MOD_30, residue, 0)
        f1 == IF residue \in K_DIV_3_PRONE_RESIDUES
              THEN (IF IsLargeGap(gap_g_n) THEN GAP_FACTOR_PENALTY ELSE GAP_FACTOR_BONUS)
              ELSE Rat(1, 1)
        f2 == IF residue \in K_NOT_DIV_3_PRONE_RESIDUES
              THEN (IF ~IsLargeGap(gap_g_n) THEN GAP_FACTOR_PENALTY ELSE GAP_FACTOR_BONUS)
              ELSE Rat(1, 1)
    IN  IF anchor_sn % 2310 = 0 THEN Returned(<<Rat(0, 1)>>)
        ELSE IF anchor_sn % 210 = 0 THEN Returned(<<Rat(1, 1)>>)
        ELSE IF base_score = 0 /\ residue # 0 THEN Returned(<<Inf>>)
        ELSE Returned(<<RatMul(Rat(base_score, 1), RatMul(f1, f2))>>)

\* mutant: the test of the multiples of 2310 is missing
get_messiness_score_v2_1_mut(anchor_sn, gap_g_n) ==
    IF anchor_sn % 210 = 0 THEN Returned(<<IMMUNITY_P4_SCORE>>)
    ELSE Returned(<<DictGet(MESSINESS_MAP_V2_1,
                            <<anchor_sn % 30, categorize_gap_v2_1(gap_g_n)>>, Inf)>>)

get_messiness_score_v2_1(anchor_sn, gap_g_n) ==
    IF anchor_sn % 2310 = 0 THEN Returned(<<IMMUNITY_P5_SCORE>>)
    ELSE IF anchor_sn % 210 = 0 THEN Returned(<<IMMUNITY_P4_SCORE>>)
    ELSE Returned(<<DictGet(MESSINESS_MAP_V2_1,
                            <<anchor_sn % 30, categorize_gap_v2_1(gap_g_n)>>, Inf)>>)

get_messiness_score_v_mod6(anchor_sn) ==
    IF MESSINESS_MAP_V_MOD6.is_none THEN Returned(<<Inf>>)
    ELSE Returned(<<DictGet(MESSINESS_MAP_V_MOD6.dict, anchor_sn % 6, Inf)>>)

\* mutant: the dict is indexed, not read with .get(key, float('inf'))
get_messiness_score_v_mod6_gap_mut(anchor_sn, gap_g_n) ==
    IF MESSINESS_MAP_V_MOD6_GAP.is_none THEN Returned(<<Inf>>)
    ELSE IF <<anchor_sn % 6, categorize_gap_v_mod6_gap(gap_g_n)>>
                \in DOMAIN MESSINESS_MAP_V_MOD6_GAP.dict
    THEN Returned(<<MESSINESS_MAP_V_MOD6_GAP.dict[<<anchor_sn % 6,
                                                    categorize_gap_v_mod6_gap(gap_g_n)>>]>>)
    ELSE [raised |-> "KeyError", ret |-> <<>>]

get_messiness_score_v_mod6_gap(anchor_sn, gap_g_n) ==
    IF MESSINESS_MAP_V_MOD6_GAP.is_none THEN Returned(<<Inf>>)
    ELSE Returned(<<DictGet(MESSINESS_MAP_V_MOD6_GAP.dict,
                            <<anchor_sn % 6, categorize_gap_v_mod6_gap(gap_g_n)>>, Inf)>>)

\* mutant: the thresholds are compared with >=
get_messiness_score_v7_recursive_ge(anchor_sn, gap_g_n) ==
    IF \/ MESSINESS_MAP_V_MOD6.is_none
       \/ MESSINESS_MAP_V1_MOD30.is_none
       \/ MESSINESS_MAP_V3_MOD210.is_none
    THEN Returned(<<Inf, Inf>>)
    ELSE LET score == IF gap_g_n >= 210
                      THEN DictGet(MESSINESS_MAP_V3_MOD210.dict, anchor_sn % 210, Inf)
                      ELSE IF gap_g_n >= 30
                      THEN DictGet(MESSINESS_MAP_V1_MOD30.dict, anchor_sn % 30, Inf)
                      ELSE DictGet(MESSINESS_MAP_V_MOD6.dict, anchor_sn % 6, Inf)
         IN  Returned(<<score, Rat(gap_g_n, 1)>>)

\* mutant: the guard tests the Mod 6 map only; .get on a None map raises
get_messiness_score_v7_recursive_mut(anchor_sn, gap_g_n) ==
    IF MESSINESS_MAP_V_MOD6.is_none THEN Returned(<<Inf, Inf>>)
    ELSE IF gap_g_n > 210
    THEN (IF MESSINESS_MAP_V3_MOD210.is_none THEN [raised |-> "AttributeError", ret |-> <<>>]
          ELSE Returned(<<DictGet(MESSINESS_MAP_V3_MOD210.dict, anchor_sn % 210, Inf),
                          Rat(gap_g_n, 1)>>))
    ELSE IF gap_g_n > 30
    THEN (IF MESSINESS_MAP_V1_MOD30.is_none THEN [raised |-> "AttributeError", ret |-> <<>>]
          ELSE Returned(<<DictGet(MESSINESS_MAP_V1_MOD30.dict, anchor_sn % 30, Inf),
                          Rat(gap_g_n, 1)>>))
    ELSE Returned(<<DictGet(MESSINESS_MAP_V_MOD6.dict, anchor_sn % 6, Inf), Rat(gap_g_n, 1)>>)

get_messiness_score_v7_recursive(anchor_sn, gap_g_n) ==
    IF \/ MESSINESS_MAP_V_MOD6.is_none
       \/ MESSINESS_MAP_V1_MOD30.is_none
       \/ MESSINESS_MAP_V3_MOD210.is_none
    THEN Returned(<<Inf, Inf>>)
    ELSE LET score == IF gap_g_n > 210
                      THEN DictGet(MESSINESS_MAP_V3_MOD210.dict, anchor_sn % 210, Inf)
                      ELSE IF gap_g_n > 30
                      THEN DictGet(MESSINESS_MAP_V1_MOD30.dict, anchor_sn % 30, Inf)
                      ELSE DictGet(MESSINESS_MAP_V_MOD6.dict, anchor_sn % 6, Inf)
         IN  Returned(<<score, Rat(gap_g_n, 1)>>)

get_messiness_score_v11_weighted(anchor_sn, gap_g_n) ==
    IF MESSINESS_MAP_V_MOD6.is_none THEN Returned(<<Inf>>)
    ELSE LET score_mod6 == DictGet(MESSINESS_MAP_V_MOD6.dict, anchor_sn % 6, Inf)
         IN  Returned(<<RatMul(RatAdd(score_mod6, Rat(1, 1)), Rat(gap_g_n, 1))>>)

FunctionsOf(s) ==
    CASE s = "PLR_conjecture_v_mod6" -> {"get_messiness_score_v_mod6"}
      [] s = "PLR_conjecture_v_mod6_gap" -> {"get_messiness_score_v_mod6_gap"}
      [] s = "v11_weighted_gap" -> {"get_messiness_score_v7_recursive",
                                    "get_messiness_score_v11_weighted"}
      [] s = "PLR-vs-PAS_Correlation" -> {"get_messiness_score_v7_recursive"}
      [] s = "pac_diagnostic_engine" -> {"get_messiness_score"}
      [] s = "pac_diagnostic_engine_v2" -> {"get_messiness_score_v2"}
      [] s = "pac_diagnostic_engine_v2_1" -> {"get_messiness_score_v2_1"}

TakesGap(fn) == fn \notin {"get_messiness_score", "get_messiness_score_v_mod6"}

Call(fn, anchor_sn, gap_g_n) ==
    CASE fn = "get_messiness_score" -> get_messiness_score(anchor_sn)
      [] fn = "get_messiness_score_v2" -> get_messiness_score_v2(anchor_sn, gap_g_n)
      [] fn = "get_messiness_score_v2_1" -> get_messiness_score_v2_1(anchor_sn, gap_g_n)
      [] fn = "get_messiness_score_v_mod6" -> get_messiness_score_v_mod6(anchor_sn)
      [] fn = "get_messiness_score_v_mod6_gap" -> get_messiness_score_v_mod6_gap(anchor_sn, gap_g_n)
      [] fn = "get_messiness_score_v7_recursive" -> get_messiness_score_v7_recursive(anchor_sn, gap_g_n)
      [] fn = "get_messiness_score_v11_weighted" -> get_messiness_score_v11_weighted(anchor_sn, gap_g_n)

(* The engine data files a run may find.  A file written by a single-axis   *)
(* builder holds every residue, the odd ones with Infinity; an older file   *)
(* holds the populated residues only; a damaged one has a key that is no    *)
(* integer.                                                                 *)
TypicalRate(r, M) == Rat(((r \div 2) % 4) * 100 + (M \div 30), (M \div 6) + 3)
TypicalMap(M) == [r \in 0..(M - 1) |-> IF r % 2 = 1 THEN Inf ELSE TypicalRate(r, M)]
PopulatedMap(M) == [r \in {x \in 0..(M - 1) : x % 2 = 0} |-> TypicalRate(r, M)]
TypicalGapMap ==
    [k \in {0, 2, 4} \X Categories |->
        IF k = <<0, "Medium">> THEN Inf
        ELSE Rat(k[1] * 100 + (IF k[2] = "Small" THEN 1 ELSE 2), 7)]
FileOf(data) == [exists |-> TRUE, data |-> data]
DamagedFile == FileOf(<<"x">> :> ToJson(Rat(1, 1)) @@ JsonDump(FALSE, PopulatedMap(6)))
DamagedGapFile ==
    FileOf(<<"0", "Small">> :> ToJson(Rat(1, 1)) @@
           JsonDump(TRUE, [k \in {<<0, "Small">>, <<2, "Large">>} |-> TypicalGapMap[k]]))

EngineFileChoices(s) ==
    CASE s = "PLR_conjecture_v_mod6" ->
             {[NoEngineFiles EXCEPT !.mod6 = f] :
                 f \in {NoFile, FileOf(JsonDump(FALSE, TypicalMap(6))),
                        FileOf(JsonDump(FALSE, PopulatedMap(6))), DamagedFile}}
      [] s = "PLR_conjecture_v_mod6_gap" ->
             {[NoEngineFiles EXCEPT !.mod6gap = f] :
                 f \in {NoFile, FileOf(JsonDump(TRUE, TypicalGapMap)), DamagedGapFile}}
      [] s = "v11_weighted_gap" ->
             {[mod6 |-> f6, mod30 |-> f30, mod210 |-> f210, mod6gap |-> NoFile] :
                 f6 \in {NoFile, FileOf(JsonDump(FALSE, TypicalMap(6)))},
                 f30 \in {NoFile, FileOf(JsonDump(FALSE, TypicalMap(30)))},
                 f210 \in {NoFile, FileOf(JsonDump(FALSE, TypicalMap(210)))}}
      [] s = "PLR-vs-PAS_Correlation" ->
             {[mod6 |-> f6, mod30 |-> NoFile, mod210 |-> f210, mod6gap |-> NoFile] :
                 f6 \in {NoFile, FileOf(JsonDump(FALSE, PopulatedMap(6)))},
                 f210 \in {NoFile, FileOf(JsonDump(FALSE, TypicalMap(210)))}}
      [] OTHER -> {NoEngineFiles}

AnchorChoices == (0..MaxAnchor) \cup {210, 2310}
GapChoices == {2, 17, 18, 21, 22, 30, 31, 210, 211}

EngineInit ==
    /\ script \in EngineScripts
    /\ engine_files \in EngineFileChoices(script)
    /\ pc = IF script \in LoaderScripts THEN "start" ELSE "ready"
    /\ MESSINESS_MAP_V_MOD6 = NoneMap
    /\ MESSINESS_MAP_V1_MOD30 = NoneMap
    /\ MESSINESS_MAP_V3_MOD210 = NoneMap
    /\ MESSINESS_MAP_V_MOD6_GAP = NoneMap
    /\ last_call = NoCall
    /\ NoTallies
    /\ NoArguments
    /\ prime_file = [exists |-> FALSE, lines |-> 0]
    /\ MAX_PRIME_PAIRS_TO_TEST = 1
    /\ START_INDEX = 10
    /\ prime_list = <<>>
    /\ prime_set = {}
    /\ i = 0
    /\ anchor_counts = <<>>
    /\ failure_counts = <<>>
    /\ total_law_I_failures = 0
    /\ messiness_scores = <<>>
    /\ output_file = NoFile
    /\ fatal = ""

\* what load_engine_data leaves in a single-axis global: the parsed dict, or
\* the old value when the file is missing or a key is no integer
LoadSingle(file, old) ==
    IF file.exists /\ ~HasBadIntKey(file.data) THEN LoadedMap(ParseSingle(file.data)) ELSE old
LoadSingleOk(file) == file.exists /\ ~HasBadIntKey(file.data)

\* load_engine_data of PLR_conjecture_v_mod6
LoadMod6 ==
    /\ script = "PLR_conjecture_v_mod6"
    /\ pc = "start"
    /\ MESSINESS_MAP_V_MOD6' = LoadSingle(engine_files.mod6, MESSINESS_MAP_V_MOD6)
    /\ pc' = IF LoadSingleOk(engine_files.mod6) THEN "ready" ELSE "stopped"
    /\ UNCHANGED <<script, builderVars, analysisVars, engine_files, MESSINESS_MAP_V1_MOD30,
                   MESSINESS_MAP_V3_MOD210, MESSINESS_MAP_V_MOD6_GAP, last_call>>

\* load_engine_data of PLR_conjecture_v_mod6_gap: the global is set to {} and
\* filled entry by entry, so a bad key leaves the entries read before it
LoadMod6Gap ==
    /\ script = "PLR_conjecture_v_mod6_gap"
    /\ pc = "start"
    /\ LET file == engine_files.mod6gap
           good == {ks \in DOMAIN file.data : GoodGapKey(ks)}
       IN  IF ~file.exists
           THEN /\ UNCHANGED MESSINESS_MAP_V_MOD6_GAP
                /\ pc' = "stopped"
           ELSE IF good = DOMAIN file.data
           THEN /\ MESSINESS_MAP_V_MOD6_GAP' = LoadedMap(ParseGapEntries(file.data, good))
                /\ pc' = "ready"
           ELSE /\ \E before \in SUBSET good :
                       MESSINESS_MAP_V_MOD6_GAP' = LoadedMap(ParseGapEntries(file.data, before))
                /\ pc' = "stopped"
    /\ UNCHANGED <<script, builderVars, analysisVars, engine_files, MESSINESS_MAP_V_MOD6,
                   MESSINESS_MAP_V1_MOD30, MESSINESS_MAP_V3_MOD210, last_call>>

\* load_all_engine_data of v11_weighted_gap: the three files are read in
\* order and the first failure ends the load, leaving the earlier maps set
LoadAll ==
    /\ script = "v11_weighted_gap"
    /\ pc = "start"
    /\ LET ok6 == LoadSingleOk(engine_files.mod6)
           ok30 == ok6 /\ LoadSingleOk(engine_files.mod30)
           ok210 == ok30 /\ LoadSingleOk(engine_files.mod210)
       IN  /\ MESSINESS_MAP_V_MOD6' =
                  IF ok6 THEN LoadSingle(engine_files.mod6, MESSINESS_MAP_V_MOD6)
                  ELSE MESSINESS_MAP_V_MOD6
           /\ MESSINESS_MAP_V1_MOD30' =
                  IF ok30 THEN LoadSingle(engine_files.mod30, MESSINESS_MAP_V1_MOD30)
                  ELSE MESSINESS_MAP_V1_MOD30
           /\ MESSINESS_MAP_V3_MOD210' =
                  IF ok210 THEN LoadSingle(engine_files.mod210, MESSINESS_MAP_V3_MOD210)
                  ELSE MESSINESS_MAP_V3_MOD210
           /\ pc' = IF ok210 THEN "ready" ELSE "stopped"
    /\ UNCHANGED <<script, builderVars, analysisVars, engine_files, MESSINESS_MAP_V_MOD6_GAP, last_call>>

\* the Mod 30 table load_all_engine_data of PLR-vs-PAS_Correlation assigns:
\* the counts of FAILURE_COUNTS_MOD_30 on the even residues, float('inf') on
\* the odd ones
HARD_CODED_MOD30 ==
    [r \in 0..29 |-> IF r % 2 = 1 THEN Inf ELSE Rat(FAILURE_COUNTS_MOD_30[r], 1)]

\* load_all_engine_data of PLR-vs-PAS_Correlation: the Mod 6 file, then the
\* hard-coded Mod 30 table, then the Mod 210 file
LoadAllCorrelation ==
    /\ script = "PLR-vs-PAS_Correlation"
    /\ pc = "start"
    /\ LET ok6 == LoadSingleOk(engine_files.mod6)
           ok210 == ok6 /\ LoadSingleOk(engine_files.mod210)
       IN  /\ MESSINESS_MAP_V_MOD6' =
                  IF ok6 THEN LoadSingle(engine_files.mod6, MESSINESS_MAP_V_MOD6)
                  ELSE MESSINESS_MAP_V_MOD6
           /\ MESSINESS_MAP_V1_MOD30' =
                  IF ok6 THEN LoadedMap(HARD_CODED_MOD30) ELSE MESSINESS_MAP_V1_MOD30
           /\ MESSINESS_MAP_V3_MOD210' =
                  IF ok210 THEN LoadSingle(engine_files.mod210, MESSINESS_MAP_V3_MOD210)
                  ELSE MESSINESS_MAP_V3_MOD210
           /\ pc' = IF ok210 THEN "ready" ELSE "stopped"
    /\ UNCHANGED <<script, builderVars, analysisVars, engine_files, MESSINESS_MAP_V_MOD6_GAP, last_call>>

\* The file a builder has written is read by the loader of the lookup engine
\* that uses it: load_engine_data of PLR_conjecture_v_mod6_gap for the file of
\* test-10, the dict comprehension of load_all_engine_data for the Mod 30 and
\* Mod 210 files.
LoadSavedMap ==
    /\ script \in BuilderScripts
    /\ Saves(script)
    /\ pc = "done"
    /\ output_file.exists
    /\ pc' = "loaded"
    /\ IF script = "test-10_mod6-Gap"
       THEN LET good == {ks \in DOMAIN output_file.data : GoodGapKey(ks)}
            IN  IF good = DOMAIN output_file.data
                THEN MESSINESS_MAP_V_MOD6_GAP' =
                         LoadedMap(ParseGapEntries(output_file.data, good))
                ELSE \E before \in SUBSET good :
                         MESSINESS_MAP_V_MOD6_GAP' =
                             LoadedMap(ParseGapEntries(output_file.data, before))
       ELSE UNCHANGED MESSINESS_MAP_V_MOD6_GAP
    /\ MESSINESS_MAP_V1_MOD30' =
           IF script = "test-11_mod30" THEN LoadSingle(output_file, MESSINESS_MAP_V1_MOD30)
           ELSE MESSINESS_MAP_V1_MOD30
    /\ MESSINESS_MAP_V3_MOD210' =
           IF script = "test-8_SAVE_MAP" THEN LoadSingle(output_file, MESSINESS_MAP_V3_MOD210)
           ELSE MESSINESS_MAP_V3_MOD210
    /\ UNCHANGED <<script, builderVars, analysisVars, engine_files, MESSINESS_MAP_V_MOD6, last_call>>

\* a call of one of the script's scoring functions.  The functions change no
\* state, so a call that follows another call reaches nothing a first call
\* does not reach: the run records its first call.
Score ==
    /\ script \in EngineScripts
    /\ last_call = NoCall
    /\ \E fn \in FunctionsOf(script), anchor_sn \in AnchorChoices, gap_g_n \in GapChoices :
          /\ TakesGap(fn) \/ gap_g_n = 2
          /\ last_call' = [fn |-> fn, anchor_sn |-> anchor_sn,
                           gap_g_n |-> IF TakesGap(fn) THEN gap_g_n ELSE 0,
                           at_pc |-> pc,
                           raised |-> Call(fn, anchor_sn, gap_g_n).raised,
                           ret |-> Call(fn, anchor_sn, gap_g_n).ret]
    /\ UNCHANGED <<script, pc, builderVars, analysisVars, engine_files, mapVars>>

Init == BuilderInit \/ EngineInit

Next == LoadPrimes \/ ScanBin \/ ScanSearch \/ BuildReport \/ SaveMap
            \/ LoadMod6 \/ LoadMod6Gap \/ LoadAll \/ LoadAllCorrelation
            \/ LoadSavedMap \/ Score

Spec == Init /\ [][Next]_vars

(* ---------------- the analysis loops over the v16.0 engine -------------- *)
(* PLR_PAS_Radius and PLR_Historical_Fingerprint predict p_{n+1} with the   *)
(* v16.0 "Chained Signature" engine and classify earlier anchors with the   *)
(* bounded nearest-prime search.                                            *)
AnalysisScripts == {"PLR_PAS_Radius", "PLR_Historical_Fingerprint"}
NUM_CANDIDATES_TO_CHECK == 10
HISTORICAL_DEPTH == 10
MAX_SIGNATURE_SEARCH_DEPTH == 4
CLEAN_THRESHOLD == Rat(3, 1)
MESSY_THRESHOLD == Rat(20, 1)

\* x < y on floats, float('inf') included
RatLess(x, y) == x.n * y.d < y.n * x.d

get_vmod6_score(anchor_sn) ==
    IF MESSINESS_MAP_V_MOD6.is_none THEN Inf
    ELSE DictGet(MESSINESS_MAP_V_MOD6.dict, anchor_sn % 6, Inf)

\* candidate_scores after candidate_scores.sort(key=lambda x: x[0]): the
\* position (from 1) of candidate j; the sort is stable
RankOf(scores, j) ==
    1 + Cardinality({k \in DOMAIN scores :
                        \/ RatLess(scores[k], scores[j])
                        \/ (scores[k] = scores[j] /\ k < j)})
Ranked(scores, r) == CHOOSE j \in DOMAIN scores : RankOf(scores, j) = r

get_v16_prediction(p_n, candidates) ==
    LET score_v11 == [j \in DOMAIN candidates |->
                         get_messiness_score_v11_weighted(p_n + candidates[j],
                                                          candidates[j] - p_n).ret[1]]
        vmod6_rate == [j \in DOMAIN candidates |-> get_vmod6_score(p_n + candidates[j])]
        winner == Ranked(score_v11, 1)
        \* the ranks 2..4 whose candidate has a messy Mod 6 rate
        messy_ranks == {rank_index \in 1..(MAX_SIGNATURE_SEARCH_DEPTH - 1) :
                           /\ rank_index < Len(candidates)
                           /\ RatLess(MESSY_THRESHOLD,
                                      vmod6_rate[Ranked(score_v11, rank_index + 1)])}
    IN  IF RatLess(vmod6_rate[winner], CLEAN_THRESHOLD) /\ messy_ranks # {}
        THEN candidates[Ranked(score_v11,
                               (CHOOSE r \in messy_ranks : \A q \in messy_ranks : r <= q) + 1)]
        ELSE candidates[winner]

is_prime(k_val, pset) == k_val >= 2 /\ k_val \in pset

\* get_pas_k_min of PLR_PAS_Radius: the failsafe breaks out of the loop and
\* the initial min_distance_k = 0 is returned
\* (mutant: a hit at the last offset is dropped by the failsafe)
get_pas_k_min_mut(anchor_sn, pset) ==
    IF NearestPrimeSearch(anchor_sn, pset, 1) = SearchRadius THEN 0
    ELSE NearestPrimeSearch(anchor_sn, pset, 1)
get_pas_k_min(anchor_sn, pset) == NearestPrimeSearch(anchor_sn, pset, 1)

\* get_pas_k_min of PLR_Historical_Fingerprint: the failsafe returns -1
get_pas_k_min_hf(anchor_sn, pset) ==
    IF NearestPrimeSearch(anchor_sn, pset, 1) = 0 THEN -1
    ELSE NearestPrimeSearch(anchor_sn, pset, 1)

CandidatesAt(idx) == [j \in 1..NUM_CANDIDATES_TO_CHECK |-> At(prime_list, idx + j)]

\* the fingerprint of index idx: one letter per earlier anchor S_{n-1} ... S_{n-10}
FingerprintAt(idx) ==
    [k \in 1..HISTORICAL_DEPTH |->
        LET hist_anchor_sn == At(prime_list, idx - k) + At(prime_list, idx - k + 1)
            k_min == get_pas_k_min_hf(hist_anchor_sn, prime_set)
        IN  IF k_min = -1 THEN "E"
            ELSE IF (k_min > 1) /\ ~is_prime(k_min, prime_set) THEN "M"
            ELSE "C"]

\* d[key] += 1 on a defaultdict(int)
Incr(d, key) == IF key \in DOMAIN d THEN [d EXCEPT ![key] = @ + 1] ELSE d @@ (key :> 1)

\* required_primes of the analysis loaders
required_primes_v16 == MAX_PRIME_PAIRS_TO_TEST + START_INDEX + NUM_CANDIDATES_TO_CHECK + 2

AnalysisStartChoices(s) == IF s = "PLR_PAS_Radius" THEN {11, 53, 97} ELSE {20, 53, 97}

\* a Mod 6 file whose rates fall with the residue, so that the engine prefers
\* the anchors of residue 4 and its prediction often misses
SkewedMap6 == [r \in 0..5 |-> IF r % 2 = 1 THEN Inf ELSE Rat(50 - (r \div 2) * 25, 1)]

\* MAX_PRIME_PAIRS_TO_TEST holds the PRIMES_TO_TEST of these scripts
AnalysisInit ==
    /\ script \in AnalysisScripts
    /\ MAX_PRIME_PAIRS_TO_TEST \in 1..MaxPairs
    /\ START_INDEX \in AnalysisStartChoices(script)
    /\ prime_file \in
          {[exists |-> FALSE, lines |-> 0]} \cup
          {[exists |-> TRUE, lines |-> n] :
              n \in {required_primes_v16 - 1, required_primes_v16,
                     required_primes_v16 + 1, Len(AllPrimes)}}
    /\ engine_files \in {[NoEngineFiles EXCEPT !.mod6 = f] :
                             f \in {NoFile, FileOf(JsonDump(FALSE, TypicalMap(6))),
                                    FileOf(JsonDump(FALSE, SkewedMap6)), DamagedFile}}
    /\ pc = "load_engine"
    /\ prime_list = <<>>
    /\ prime_set = {}
    /\ i = 0
    /\ anchor_counts = <<>>
    /\ failure_counts = <<>>
    /\ total_law_I_failures = 0
    /\ messiness_scores = <<>>
    /\ output_file = NoFile
    /\ fatal = ""
    /\ MESSINESS_MAP_V_MOD6 = NoneMap
    /\ MESSINESS_MAP_V1_MOD30 = NoneMap
    /\ MESSINESS_MAP_V3_MOD210 = NoneMap
    /\ MESSINESS_MAP_V_MOD6_GAP = NoneMap
    /\ last_call = NoCall
    /\ NoTallies
    /\ NoArguments

analysisFrame == <<script, prime_file, MAX_PRIME_PAIRS_TO_TEST, START_INDEX, anchor_counts,
                   failure_counts, total_law_I_failures, messiness_scores, output_file,
                   engine_files, MESSINESS_MAP_V1_MOD30, MESSINESS_MAP_V3_MOD210,
                   MESSINESS_MAP_V_MOD6_GAP, last_call>>

\* "if not load_engine_data(): ... return"
LoadEngineV16 ==
    /\ script \in AnalysisScripts
    /\ pc = "load_engine"
    /\ MESSINESS_MAP_V_MOD6' = LoadSingle(engine_files.mod6, MESSINESS_MAP_V_MOD6)
    /\ pc' = IF LoadSingleOk(engine_files.mod6) THEN "load_primes" ELSE "stopped"
    /\ UNCHANGED <<analysisFrame, analysisVars, prime_list, prime_set, i, fatal>>

\* load_primes_from_file and "if prime_list is None: return"
LoadPrimesV16 ==
    /\ script \in AnalysisScripts
    /\ pc = "load_primes"
    /\ IF ~prime_file.exists
       THEN /\ fatal' = "prime file not found"
            /\ pc' = "returned"
            /\ UNCHANGED <<prime_list, prime_set>>
       ELSE IF Len(PrimeFileLines) < required_primes_v16
       THEN /\ fatal' = "prime file is too small"
            /\ pc' = "returned"
            /\ UNCHANGED <<prime_list, prime_set>>
       ELSE /\ prime_list' = PrimeFileLines
            /\ prime_set' = Range(PrimeFileLines)
            /\ pc' = "loop_guard"
            /\ UNCHANGED fatal
    /\ UNCHANGED <<analysisFrame, analysisVars, MESSINESS_MAP_V_MOD6, i>>

\* "if loop_end_index >= len(prime_list) - (NUM_CANDIDATES_TO_CHECK + 2): ... return"
CheckLoopEnd ==
    /\ script \in AnalysisScripts
    /\ pc = "loop_guard"
    /\ IF loop_end_index >= Len(prime_list) - (NUM_CANDIDATES_TO_CHECK + 2)
       THEN /\ fatal' = "PRIMES_TO_TEST is too large"
            /\ pc' = "returned"
            /\ UNCHANGED i
       ELSE /\ i' = START_INDEX
            /\ pc' = IF START_INDEX < loop_end_index THEN "loop" ELSE "done"
            /\ UNCHANGED fatal
    /\ UNCHANGED <<analysisFrame, analysisVars, MESSINESS_MAP_V_MOD6, prime_list, prime_set>>

\* one iteration of the loop of run_PLR_vs_PAS_radius_analysis
RadiusStep ==
    /\ script = "PLR_PAS_Radius"
    /\ pc = "loop"
    /\ total_predictions' = total_predictions + 1
    /\ LET p_n == At(prime_list, i)
           true_p_n_plus_1 == At(prime_list, i + 1)
           prediction_v16 == get_v16_prediction(p_n, CandidatesAt(i))
           anchor_S_n_minus_1 == At(prime_list, i - 1) + p_n
           k_min == get_pas_k_min(anchor_S_n_minus_1, prime_set)
           is_k_min_composite == (k_min > 1) /\ ~is_prime(k_min, prime_set)
       IN  IF prediction_v16 # true_p_n_plus_1
           THEN /\ total_v16_failures' = total_v16_failures + 1
                /\ IF is_k_min_composite
                   THEN /\ failures_when_prev_anchor_is_MESSY' =
                               failures_when_prev_anchor_is_MESSY + 1
                        /\ UNCHANGED failures_when_prev_anchor_is_CLEAN
                   ELSE /\ failures_when_prev_anchor_is_CLEAN' =
                               failures_when_prev_anchor_is_CLEAN + 1
                        /\ UNCHANGED failures_when_prev_anchor_is_MESSY
           ELSE UNCHANGED <<total_v16_failures, failures_when_prev_anchor_is_CLEAN,
                            failures_when_prev_anchor_is_MESSY>>
    /\ i' = i + 1
    /\ pc' = IF i + 1 < loop_end_index THEN "loop" ELSE "done"
    /\ UNCHANGED <<analysisFrame, MESSINESS_MAP_V_MOD6, prime_list, prime_set, fatal,
                   total_v16_successes, success_fingerprints, failure_fingerprints, runVars>>

\* one iteration of the loop of run_PLR_historical_fingerprint_analysis
FingerprintStep ==
    /\ script = "PLR_Historical_Fingerprint"
    /\ pc = "loop"
    /\ total_predictions' = total_predictions + 1
    /\ LET p_n == At(prime_list, i)
           true_p_n_plus_1 == At(prime_list, i + 1)
           is_success == (get_v16_prediction(p_n, CandidatesAt(i)) = true_p_n_plus_1)
           fingerprint == FingerprintAt(i)
       IN  IF is_success
           THEN /\ total_v16_successes' = total_v16_successes + 1
                /\ success_fingerprints' = Incr(success_fingerprints, fingerprint)
                /\ UNCHANGED <<total_v16_failures, failure_fingerprints>>
           ELSE /\ total_v16_failures' = total_v16_failures + 1
                /\ failure_fingerprints' = Incr(failure_fingerprints, fingerprint)
                /\ UNCHANGED <<total_v16_successes, success_fingerprints>>
    /\ i' = i + 1
    /\ pc' = IF i + 1 < loop_end_index THEN "loop" ELSE "done"
    /\ UNCHANGED <<analysisFrame, MESSINESS_MAP_V_MOD6, prime_list, prime_set, fatal,
                   failures_when_prev_anchor_is_CLEAN, failures_when_prev_anchor_is_MESSY,
                   runVars>>

AnalysisNext == LoadEngineV16 \/ LoadPrimesV16 \/ CheckLoopEnd \/ RadiusStep \/ FingerprintStep

AnalysisSpec == AnalysisInit /\ [][AnalysisNext]_vars

(* ------------------------- how a script ends --------------------------- *)
\* The scripts end by "if __name__ == '__main__': run()": a return from the
\* run function ends the interpreter with status 0, an exception that nothing
\* catches ends it with status 1 after the traceback.
Uncaught == {"IndexError", "ValueError"}
ExitStatus == IF pc \in Uncaught THEN 1 ELSE 0

(* ------------------- the prediction functions, called alone ------------- *)
(* get_winner_from_scores (v11_weighted_gap), get_v17_prediction            *)
(* (v17_structural_ceiling) and get_v23_internal_flip_prediction            *)
(* (PLR_Engine_Internal_Flip) are pure functions of their arguments and of  *)
(* the loaded maps. A score is held as the tuple of its floats: <<x>> for a *)
(* float, <<rate, gap>> for the tuple of the recursive engine.              *)
MaxListLen == 3
MaxV17Candidates == 6
CLEAN_THRESHOLD_V17 == Rat(1, 2)
MESSY_THRESHOLD_V17 == Rat(30, 1)
MAX_SIGNATURE_SEARCH_DEPTH_V17 == 4

\* x < y of Python on two scores of the same shape: floats by value, tuples
\* by their first differing component
ScoreLess(x, y) ==
    \E k \in 1..Len(x) : /\ \A m \in 1..(k - 1) : x[m] = y[m]
                         /\ RatLess(x[k], y[k])

\* list.sort(key=...): the position (from 1) that element j takes; elements
\* with equal keys keep their order
\* (mutant: equal keys come out in reverse order)
SortPosition_mut(keys, j) ==
    1 + Cardinality({k \in DOMAIN keys :
                        \/ ScoreLess(keys[k], keys[j])
                        \/ (keys[k] = keys[j] /\ k > j)})
SortPosition(keys, j) ==
    1 + Cardinality({k \in DOMAIN keys :
                        \/ ScoreLess(keys[k], keys[j])
                        \/ (keys[k] = keys[j] /\ k < j)})
SortByKey(list, keys) ==
    [r \in 1..Len(list) |-> list[CHOOSE j \in 1..Len(list) : SortPosition(keys, j) = r]]

\* candidate_scores is a list of (score, prime); None is 0
get_winner_from_scores(candidate_scores) ==
    IF candidate_scores = <<>> THEN 0
    ELSE LET sorted == SortByKey(candidate_scores,
                                 [j \in DOMAIN candidate_scores |-> candidate_scores[j][1]])
             min_score == sorted[1][1]
             winners_list == SelectSeq(sorted, LAMBDA e : e[1] = min_score)
         IN  winners_list[1][2]

\* the smallest element of a non-empty set of integers
Least(S) == CHOOSE x \in S : \A y \in S : x <= y

\* entries are (score_v17_weighted, q_i, vmod210_rate)
get_v17_prediction(p_n, candidates) ==
    LET candidate_scores ==
            [j \in DOMAIN candidates |->
                LET S_cand == p_n + candidates[j]
                    gap_g_i == candidates[j] - p_n
                    vmod210_rate == DictGet(MESSINESS_MAP_V3_MOD210.dict, S_cand % 210, Inf)
                IN  <<RatMul(RatAdd(vmod210_rate, Rat(1, 1)), Rat(gap_g_i, 1)),
                      candidates[j], vmod210_rate>>]
        sorted == SortByKey(candidate_scores,
                            [j \in DOMAIN candidate_scores |-> <<candidate_scores[j][1]>>])
        \* the values of rank_index at which the loop would stop with an override
        messy == {rank_index \in 1..MAX_SIGNATURE_SEARCH_DEPTH_V17 :
                     /\ rank_index < Len(sorted)
                     /\ RatLess(MESSY_THRESHOLD_V17, sorted[rank_index + 1][3])}
    IN  IF RatLess(sorted[1][3], CLEAN_THRESHOLD_V17) /\ messy # {}
        THEN sorted[Least(messy) + 1][2]
        ELSE sorted[1][2]

\* entries are (score_v11, q_i, vmod6_rate, gap_g_i)
candidates_data_v23(p_n, candidates) ==
    [j \in DOMAIN candidates |->
        LET S_cand == p_n + candidates[j]
            gap_g_i == candidates[j] - p_n
        IN  <<get_messiness_score_v11_weighted(S_cand, gap_g_i).ret[1], candidates[j],
              get_vmod6_score(S_cand), gap_g_i>>]

get_v11_multiplicative_prediction(p_n, candidates) ==
    LET candidate_scores == candidates_data_v23(p_n, candidates)
        sorted == SortByKey(candidate_scores,
                            [j \in DOMAIN candidate_scores |-> <<candidate_scores[j][1]>>])
    IN  sorted[1][2]

\* mutant: the flip is never applied
get_v23_internal_flip_prediction_mut(p_n, candidates) ==
    get_v11_multiplicative_prediction(p_n, candidates)
get_v23_internal_flip_prediction(p_n, candidates) ==
    LET candidates_data == candidates_data_v23(p_n, candidates)
        messy_bin == SelectSeq(candidates_data, LAMBDA data : RatLess(MESSY_THRESHOLD, data[3]))
        sorted == SortByKey(candidates_data,
                            [j \in DOMAIN candidates_data |-> <<candidates_data[j][1]>>])
        v11_winner_prime == sorted[1][2]
        v11_winner_gap == sorted[1][4]
        messy_sorted == SortByKey(messy_bin,
                                  [j \in DOMAIN messy_bin |-> <<Rat(messy_bin[j][4], 1)>>])
        g_messy_low == messy_sorted[1][4]
        p_messy_low == messy_sorted[1][2]
    IN  IF messy_bin # <<>> /\ g_messy_low < v11_winner_gap
        THEN p_messy_low
        ELSE v11_winner_prime

\* get_pas_k_min of PLR_PAS_Radius and the one of PLR_Historical_Fingerprint
SearchFunctions == {"get_pas_k_min", "get_pas_k_min_hf"}
FunctionsCalled == {"get_winner_from_scores", "get_v17_prediction",
                    "get_v23_internal_flip_prediction"} \cup SearchFunctions

\* the values search_dist takes in the while-True loop, in the order taken:
\* the loop leaves at the first hit, or when search_dist has passed the radius
RECURSIVE ExaminedOffsets(_, _, _)
ExaminedOffsets(anchor_sn, pset, search_dist) ==
    IF (anchor_sn - search_dist) \in pset \/ (anchor_sn + search_dist) \in pset
    THEN <<search_dist>>
    ELSE IF search_dist + 1 > SearchRadius THEN <<search_dist>>
    ELSE <<search_dist>> \o ExaminedOffsets(anchor_sn, pset, search_dist + 1)

\* the anchors and the members of the set, by their distance from the
\* anchor, that a call of the search is made with
SearchAnchors == {40, 41}
SearchOffsets == {-(SearchRadius + 1), -SearchRadius, -2, -1, 1,
                  SearchRadius - 1, SearchRadius, SearchRadius + 1}
\* no search has been called
NoSearch ==
    /\ call_anchor_sn = 0
    /\ call_prime_set = {}
    /\ call_examined = <<>>

\* no script runs: the files, the lists and the tallies are untouched
NoRun ==
    /\ prime_file = [exists |-> FALSE, lines |-> 0]
    /\ MAX_PRIME_PAIRS_TO_TEST = 1
    /\ START_INDEX = 10
    /\ prime_list = <<>>
    /\ prime_set = {}
    /\ i = 0
    /\ anchor_counts = <<>>
    /\ failure_counts = <<>>
    /\ total_law_I_failures = 0
    /\ messiness_scores = <<>>
    /\ output_file = NoFile
    /\ fatal = ""
    /\ engine_files = NoEngineFiles
    /\ MESSINESS_MAP_V1_MOD30 = NoneMap
    /\ MESSINESS_MAP_V_MOD6_GAP = NoneMap
    /\ last_call = NoCall
    /\ NoTallies

\* the elements of a set of integers in ascending order
Ascending(S) == [r \in 1..Cardinality(S) |->
                    CHOOSE x \in S : Cardinality({y \in S : y < x}) = r - 1]

\* the scores a list handed to get_winner_from_scores may hold
FloatScores == {<<Rat(0, 1)>>, <<Rat(3, 2)>>, <<Inf>>}
TupleScores == {<<Rat(0, 1), Rat(2, 1)>>, <<Rat(0, 1), Rat(4, 1)>>,
                <<Rat(3, 2), Rat(2, 1)>>, <<Inf, Inf>>}
\* the primes after AllPrimes[idx], the first k of them
NextPrimes(idx, k) == [j \in 1..k |-> AllPrimes[idx + j]]
V17Rates == {Rat(0, 1), Rat(1, 1), Rat(31, 1)}
\* a Mod 6 map with the given rates for the even residues
Map6(r0, r2, r4) == LoadedMap(0 :> Rat(r0, 1) @@ 2 :> Rat(r2, 1) @@ 4 :> Rat(r4, 1))
V23Window == 8

FunctionInit ==
    /\ script \in FunctionsCalled
    /\ pc = "call"
    /\ NoRun
    /\ call_result = 0
    /\ \/ /\ script = "get_winner_from_scores"
          /\ NoSearch
          /\ call_p_n = 0
          /\ call_candidates = <<>>
          /\ MESSINESS_MAP_V_MOD6 = NoneMap
          /\ MESSINESS_MAP_V3_MOD210 = NoneMap
          /\ \E n \in 0..MaxListLen, shape \in {FloatScores, TupleScores} :
                \E scores \in [1..n -> shape] :
                   call_scores = [j \in 1..n |-> <<scores[j], AllPrimes[5 + j]>>]
       \/ /\ script = "get_v17_prediction"
          /\ NoSearch
          /\ call_scores = <<>>
          /\ MESSINESS_MAP_V_MOD6 = NoneMap
          /\ \E idx \in {5, 6}, k \in {1, 4, 5, MaxV17Candidates} :
                \E rates \in [1..k -> V17Rates] :
                   /\ call_p_n = AllPrimes[idx]
                   /\ call_candidates = NextPrimes(idx, k)
                   /\ MESSINESS_MAP_V3_MOD210 =
                          LoadedMap([r \in {(AllPrimes[idx] + AllPrimes[idx + j]) % 210 :
                                               j \in 1..k} |->
                                        rates[CHOOSE j \in 1..k :
                                                 (AllPrimes[idx] + AllPrimes[idx + j]) % 210 = r]])
       \/ /\ script = "get_v23_internal_flip_prediction"
          /\ NoSearch
          /\ call_scores = <<>>
          /\ MESSINESS_MAP_V3_MOD210 = NoneMap
          /\ \E idx \in 2..4 :
                \E qs \in SUBSET {AllPrimes[idx + j] : j \in 1..V23Window} :
                   /\ Cardinality(qs) \in 1..MaxListLen
                   /\ call_p_n = AllPrimes[idx]
                   /\ call_candidates = Ascending(qs)
          /\ \E r0 \in {0, 20, 25}, r2 \in {10, 21}, r4 \in {21, 50} :
                MESSINESS_MAP_V_MOD6 = Map6(r0, r2, r4)
       \/ /\ script \in SearchFunctions
          /\ call_p_n = 0
          /\ call_candidates = <<>>
          /\ call_scores = <<>>
          /\ MESSINESS_MAP_V_MOD6 = NoneMap
          /\ MESSINESS_MAP_V3_MOD210 = NoneMap
          /\ call_examined = <<>>
          /\ call_anchor_sn \in SearchAnchors
          /\ \E offsets \in SUBSET SearchOffsets :
                call_prime_set = {call_anchor_sn + d : d \in offsets}

CallWinner ==
    /\ script = "get_winner_from_scores"
    /\ pc = "call"
    /\ call_result' = get_winner_from_scores(call_scores)
    /\ pc' = "returned"
    /\ UNCHANGED <<script, builderVars, engine_files, mapVars, last_call, total_predictions,
                   total_v16_failures, total_v16_successes, failures_when_prev_anchor_is_CLEAN,
                   failures_when_prev_anchor_is_MESSY, success_fingerprints,
                   failure_fingerprints, total_successes_baseline, total_successes_new_champ,
                   total_v16_overrides_attempted, success_r_distribution,
                   failure_r_distribution, total_success_and_clean, total_success_and_messy,
                   total_failure_and_clean, total_failure_and_messy, call_p_n,
                   call_candidates, call_scores, call_anchor_sn, call_prime_set,
                   call_examined>>

CallV17 ==
    /\ script = "get_v17_prediction"
    /\ pc = "call"
    /\ call_result' = get_v17_prediction(call_p_n, call_candidates)
    /\ pc' = "returned"
    /\ UNCHANGED <<script, builderVars, engine_files, mapVars, last_call, total_predictions,
                   total_v16_failures, total_v16_successes, failures_when_prev_anchor_is_CLEAN,
                   failures_when_prev_anchor_is_MESSY, success_fingerprints,
                   failure_fingerprints, total_successes_baseline, total_successes_new_champ,
                   total_v16_overrides_attempted, success_r_distribution,
                   failure_r_distribution, total_success_and_clean, total_success_and_messy,
                   total_failure_and_clean, total_failure_and_messy, call_p_n,
                   call_candidates, call_scores, call_anchor_sn, call_prime_set,
                   call_examined>>

CallV23 ==
    /\ script = "get_v23_internal_flip_prediction"
    /\ pc = "call"
    /\ call_result' = get_v23_internal_flip_prediction(call_p_n, call_candidates)
    /\ pc' = "returned"
    /\ UNCHANGED <<script, builderVars, engine_files, mapVars, last_call, total_predictions,
                   total_v16_failures, total_v16_successes, failures_when_prev_anchor_is_CLEAN,
                   failures_when_prev_anchor_is_MESSY, success_fingerprints,
                   failure_fingerprints, total_successes_baseline, total_successes_new_champ,
                   total_v16_overrides_attempted, success_r_distribution,
                   failure_r_distribution, total_success_and_clean, total_success_and_messy,
                   total_failure_and_clean, total_failure_and_messy, call_p_n,
                   call_candidates, call_scores, call_anchor_sn, call_prime_set,
                   call_examined>>

CallSearch ==
    /\ script \in SearchFunctions
    /\ pc = "call"
    /\ call_result' = IF script = "get_pas_k_min"
                      THEN get_pas_k_min(call_anchor_sn, call_prime_set)
                      ELSE get_pas_k_min_hf(call_anchor_sn, call_prime_set)
    /\ call_examined' = ExaminedOffsets(call_anchor_sn, call_prime_set, 1)
    /\ pc' = "returned"
    /\ UNCHANGED <<script, builderVars, engine_files, mapVars, last_call, total_predictions,
                   total_v16_failures, total_v16_successes, failures_when_prev_anchor_is_CLEAN,
                   failures_when_prev_anchor_is_MESSY, success_fingerprints,
                   failure_fingerprints, total_successes_baseline, total_successes_new_champ,
                   total_v16_overrides_attempted, success_r_distribution,
                   failure_r_distribution, total_success_and_clean, total_success_and_messy,
                   total_failure_and_clean, total_failure_and_messy, call_p_n,
                   call_candidates, call_scores, call_anchor_sn, call_prime_set>>

FunctionNext == CallWinner \/ CallV17 \/ CallV23 \/ CallSearch

FunctionSpec == FunctionInit /\ [][FunctionNext]_vars

(* ------------------- the engine comparison run loops -------------------- *)
(* PLR_Engine_Internal_Flip (v11 against v23), the Chained Signature engine *)
(* (v15 against v16), v11_weighted_gap (v7 against v11), the Law III radius *)
(* analysis and the PLR-PAS correlation test: each loads its engine data,   *)
(* loads the primes, checks the size of the list and predicts p_{n+1} for   *)
(* PRIMES_TO_TEST indices. MAX_PRIME_PAIRS_TO_TEST holds PRIMES_TO_TEST.    *)
Mod6RunScripts == {"PLR_Engine_Internal_Flip", "PLR_Chained_Signature_Final_Engine",
                   "PLR-Failure_vs_Law3-Radius"}
RunScripts == Mod6RunScripts \cup {"v11_weighted_gap", "PLR-vs-PAS_Correlation"}
\* the loaders that also build prime_set and whose callers unpack two names
TwoNameScripts == {"PLR-Failure_vs_Law3-Radius", "PLR-vs-PAS_Correlation"}
MAX_LAW_III_RADIUS == 30

\* a length check that forgets the candidates and the radius
required_primes_run_mut(s) == MAX_PRIME_PAIRS_TO_TEST + START_INDEX
required_primes_run(s) ==
    CASE s = "PLR-Failure_vs_Law3-Radius" ->
             MAX_PRIME_PAIRS_TO_TEST + START_INDEX + NUM_CANDIDATES_TO_CHECK
                 + MAX_LAW_III_RADIUS + 2
      [] s = "PLR-vs-PAS_Correlation" ->
             MAX_PRIME_PAIRS_TO_TEST + START_INDEX + NUM_CANDIDATES_TO_CHECK + 10
      [] OTHER -> MAX_PRIME_PAIRS_TO_TEST + START_INDEX + NUM_CANDIDATES_TO_CHECK + 2

\* how many values load_primes_from_file returns on each of its paths
ReturnedValues(s, path) ==
    IF s \in TwoNameScripts
    THEN CASE path = "missing" -> 2
           [] path = "small" -> 3
           [] path = "ok" -> 2
    ELSE 1
\* how many names the caller assigns the result to
UnpackedNames(s) == IF s \in TwoNameScripts THEN 2 ELSE 1
\* a single name takes any value; several names need as many values
Unpacks(values, names) == names = 1 \/ values = names

loop_start_index_run(s) ==
    IF s = "PLR-Failure_vs_Law3-Radius" THEN START_INDEX + MAX_LAW_III_RADIUS ELSE START_INDEX
loop_end_index_run(s) == MAX_PRIME_PAIRS_TO_TEST + loop_start_index_run(s)

\* the size guard between the loader and the loop; the correlation test has none
HasLoopGuard(s) == s # "PLR-vs-PAS_Correlation"
LoopGuardRejects(s) ==
    IF s = "PLR-Failure_vs_Law3-Radius"
    THEN loop_end_index_run(s) >= Len(prime_list) - MAX_LAW_III_RADIUS - 1
    ELSE loop_end_index_run(s) >= Len(prime_list) - (NUM_CANDIDATES_TO_CHECK + 2)

\* a Mod 6 file with a clean residue 4 and messy residues 0 and 2, under which
\* the chained search finds its first messy candidate at every rank from 2 to 5
ChainedMap6 ==
    [r \in 0..5 |-> CASE r = 0 -> Rat(50, 1) [] r = 2 -> Rat(21, 1) [] r = 4 -> Rat(2, 1)
                      [] OTHER -> Inf]

RunStartChoices(s) == IF s = "PLR-Failure_vs_Law3-Radius" THEN {10, 25} ELSE {10, 53}

RunEngineFileChoices(s) ==
    CASE s \in Mod6RunScripts ->
             {[NoEngineFiles EXCEPT !.mod6 = f] :
                 f \in {NoFile, FileOf(JsonDump(FALSE, TypicalMap(6))),
                        FileOf(JsonDump(FALSE, ChainedMap6))}}
      [] s = "v11_weighted_gap" ->
             {[mod6 |-> FileOf(JsonDump(FALSE, TypicalMap(6))), mod30 |-> f30,
               mod210 |-> FileOf(JsonDump(FALSE, TypicalMap(210))), mod6gap |-> NoFile] :
                 f30 \in {NoFile, FileOf(JsonDump(FALSE, TypicalMap(30)))}}
      [] s = "PLR-vs-PAS_Correlation" ->
             {[mod6 |-> FileOf(JsonDump(FALSE, PopulatedMap(6))), mod30 |-> NoFile,
               mod210 |-> f210, mod6gap |-> NoFile] :
                 f210 \in {NoFile, FileOf(JsonDump(FALSE, TypicalMap(210)))}}

ComparisonInit ==
    /\ script \in RunScripts
    /\ MAX_PRIME_PAIRS_TO_TEST \in 1..MaxPairs
    /\ START_INDEX \in RunStartChoices(script)
    /\ prime_file \in
          {[exists |-> FALSE, lines |-> 0]} \cup
          {[exists |-> TRUE, lines |-> n] :
              n \in {required_primes_run(script) - 1, required_primes_run(script),
                     required_primes_run(script) + 1, Len(AllPrimes)}}
    /\ engine_files \in RunEngineFileChoices(script)
    /\ pc = "start"
    /\ prime_list = <<>>
    /\ prime_set = {}
    /\ i = 0
    /\ anchor_counts = <<>>
    /\ failure_counts = <<>>
    /\ total_law_I_failures = 0
    /\ messiness_scores = <<>>
    /\ output_file = NoFile
    /\ fatal = ""
    /\ MESSINESS_MAP_V_MOD6 = NoneMap
    /\ MESSINESS_MAP_V1_MOD30 = NoneMap
    /\ MESSINESS_MAP_V3_MOD210 = NoneMap
    /\ MESSINESS_MAP_V_MOD6_GAP = NoneMap
    /\ last_call = NoCall
    /\ NoTallies
    /\ NoArguments

\* what no run loop writes
runUntouched == <<script, prime_file, MAX_PRIME_PAIRS_TO_TEST, START_INDEX, engine_files,
                  anchor_counts, failure_counts, messiness_scores, output_file,
                  MESSINESS_MAP_V_MOD6_GAP, last_call, total_v16_failures,
                  total_v16_successes, failures_when_prev_anchor_is_CLEAN,
                  failures_when_prev_anchor_is_MESSY, success_fingerprints,
                  failure_fingerprints, call_p_n, call_candidates, call_scores, call_anchor_sn,
                  call_prime_set, call_examined, call_result>>
runTallies == <<total_predictions, total_law_I_failures, total_successes_baseline,
                total_successes_new_champ, total_v16_overrides_attempted,
                success_r_distribution, failure_r_distribution, total_success_and_clean,
                total_success_and_messy, total_failure_and_clean, total_failure_and_messy>>
runMaps == <<MESSINESS_MAP_V_MOD6, MESSINESS_MAP_V1_MOD30, MESSINESS_MAP_V3_MOD210>>

\* "if not load_engine_data(): return" of the scripts that read the Mod 6 file
LoadEngineData ==
    /\ script \in Mod6RunScripts
    /\ pc = "start"
    /\ MESSINESS_MAP_V_MOD6' = LoadSingle(engine_files.mod6, MESSINESS_MAP_V_MOD6)
    /\ pc' = IF LoadSingleOk(engine_files.mod6) THEN "ready" ELSE "stopped"
    /\ UNCHANGED <<runUntouched, runTallies, MESSINESS_MAP_V1_MOD30, MESSINESS_MAP_V3_MOD210,
                   prime_list, prime_set, i, fatal>>

\* load_primes_from_file, the assignment of what it returns, and
\* "if prime_list is None: return"
LoadPrimesRun ==
    /\ script \in RunScripts
    /\ pc = "ready"
    /\ LET path == IF ~prime_file.exists THEN "missing"
                   ELSE IF Len(PrimeFileLines) < required_primes_run(script) THEN "small"
                   ELSE "ok"
           assigned == Unpacks(ReturnedValues(script, path), UnpackedNames(script))
       IN  /\ fatal' = CASE path = "missing" -> "prime file not found"
                         [] path = "small" -> "prime file is too small"
                         [] path = "ok" -> fatal
           /\ IF path = "ok" /\ assigned
              THEN /\ prime_list' = PrimeFileLines
                   /\ prime_set' = IF script \in TwoNameScripts THEN Range(PrimeFileLines)
                                   ELSE prime_set
                   /\ i' = IF HasLoopGuard(script) THEN i ELSE loop_start_index_run(script)
                   /\ pc' = IF HasLoopGuard(script) THEN "loop_guard" ELSE "loop"
              ELSE /\ pc' = IF assigned THEN "returned" ELSE "ValueError"
                   /\ UNCHANGED <<prime_list, prime_set, i>>
    /\ UNCHANGED <<runUntouched, runTallies, runMaps>>

\* "if loop_end_index >= len(prime_list) - ...: print(FATAL ERROR ...); return"
CheckRunLoopEnd ==
    /\ script \in RunScripts
    /\ pc = "loop_guard"
    /\ IF LoopGuardRejects(script)
       THEN /\ fatal' = IF script = "PLR-Failure_vs_Law3-Radius"
                        THEN "Not enough primes loaded for S_n+r lookups"
                        ELSE "PRIMES_TO_TEST is too large"
            /\ pc' = "returned"
            /\ UNCHANGED i
       ELSE /\ i' = loop_start_index_run(script)
            /\ pc' = "loop"
            /\ UNCHANGED fatal
    /\ UNCHANGED <<runUntouched, runTallies, runMaps, prime_list, prime_set>>

\* the indices of the candidates prime_list[i + j], j = 1 .. NUM_CANDIDATES_TO_CHECK
CandidateIndices(idx) == {idx + j : j \in 1..NUM_CANDIDATES_TO_CHECK}
\* an index that list[...] accepts without wrapping around
InRange(indices) == \A x \in indices : 0 <= x /\ x < Len(prime_list)

Abs(x) == IF x < 0 THEN -x ELSE x
is_clean_k(k_val, pset) == k_val = 1 \/ (k_val >= 2 /\ k_val \in pset)

\* the prime that ended the search of the Law III analysis (lower side first)
q_prime_of(anchor_S_n, pset) ==
    LET min_distance_k == NearestPrimeSearch(anchor_S_n, pset, 1)
    IN  IF (anchor_S_n - min_distance_k) \in pset THEN anchor_S_n - min_distance_k
        ELSE anchor_S_n + min_distance_k

\* "for r in range(1, MAX_LAW_III_RADIUS + 1)" from radius r on: the radius
\* that fixes the failure, -1 when none does
RECURSIVE true_fixing_radius_from(_, _, _)
true_fixing_radius_from(idx, q_prime, r) ==
    IF r > MAX_LAW_III_RADIUS THEN -1
    ELSE LET S_prev == At(prime_list, idx - r) + At(prime_list, idx - r + 1)
             S_next == At(prime_list, idx + r) + At(prime_list, idx + r + 1)
         IN  IF is_clean_k(Abs(S_prev - q_prime), prime_set) THEN r
             ELSE IF is_clean_k(Abs(S_next - q_prime), prime_set) THEN r
             ELSE true_fixing_radius_from(idx, q_prime, r + 1)

\* the indices that loop reads, in the order it reads them; it stops at the
\* first one that list[...] rejects
RECURSIVE RadiusAccesses(_, _, _)
RadiusAccesses(idx, q_prime, r) ==
    IF r > MAX_LAW_III_RADIUS THEN {}
    ELSE LET prev == {idx - r, idx - r + 1}
             next == {idx + r, idx + r + 1}
         IN  IF ~InRange(prev) THEN prev
             ELSE IF is_clean_k(Abs(At(prime_list, idx - r) + At(prime_list, idx - r + 1)
                                    - q_prime), prime_set)
             THEN prev
             ELSE IF ~InRange(next) THEN prev \cup next
             ELSE IF is_clean_k(Abs(At(prime_list, idx + r) + At(prime_list, idx + r + 1)
                                    - q_prime), prime_set)
             THEN prev \cup next
             ELSE prev \cup next \cup RadiusAccesses(idx, q_prime, r + 1)

\* what one iteration of the Law III analysis finds at index idx
Law3At(idx) ==
    LET anchor_S_n == At(prime_list, idx) + At(prime_list, idx + 1)
        min_distance_k == NearestPrimeSearch(anchor_S_n, prime_set, 1)
        q_prime == q_prime_of(anchor_S_n, prime_set)
        composite == min_distance_k # 0 /\ is_k_composite(min_distance_k, prime_set)
    IN  [is_k_composite |-> composite,
         q_prime |-> q_prime,
         true_fixing_radius |-> IF composite
                                THEN true_fixing_radius_from(idx, q_prime, 1) ELSE -1]

\* the indices of prime_list that one iteration of the loop of script s reads
AccessedIndices(s, idx) ==
    CASE s = "PLR-Failure_vs_Law3-Radius" ->
             IF ~InRange({idx, idx + 1}) THEN {idx, idx + 1}
             ELSE IF ~Law3At(idx).is_k_composite THEN {idx, idx + 1}
             ELSE LET radius == RadiusAccesses(idx, Law3At(idx).q_prime, 1)
                  IN  IF ~InRange(radius) \/ Law3At(idx).true_fixing_radius = -1
                      THEN {idx, idx + 1} \cup radius
                      ELSE {idx, idx + 1} \cup radius \cup CandidateIndices(idx)
      [] s = "PLR_Historical_Fingerprint" ->
             {idx, idx + 1} \cup CandidateIndices(idx)
                 \cup {idx - k : k \in 1..HISTORICAL_DEPTH}
                 \cup {idx - k + 1 : k \in 1..HISTORICAL_DEPTH}
      [] s \in BuilderScripts -> {idx, idx + 1}
      [] OTHER -> {idx, idx + 1} \cup CandidateIndices(idx)

\* the position after an iteration of a run loop
AfterIteration == IF i + 1 < loop_end_index_run(script) THEN "loop" ELSE "done"

\* one iteration of the loop of run_PLR_v23_internal_flip_test
\* (total_successes_baseline is total_successes_v11_baseline,
\* total_successes_new_champ is total_successes_v23_new_champ)
FlipStep ==
    /\ script = "PLR_Engine_Internal_Flip"
    /\ pc = "loop"
    /\ IF ~InRange(AccessedIndices(script, i))
       THEN /\ pc' = "IndexError"
            /\ UNCHANGED <<i, total_predictions, total_successes_baseline,
                           total_successes_new_champ>>
       ELSE LET p_n == At(prime_list, i)
                true_p_n_plus_1 == At(prime_list, i + 1)
                pred_v11 == get_v11_multiplicative_prediction(p_n, CandidatesAt(i))
                pred_v23 == get_v23_internal_flip_prediction(p_n, CandidatesAt(i))
            IN  /\ total_successes_baseline' =
                       total_successes_baseline + IF pred_v11 = true_p_n_plus_1 THEN 1 ELSE 0
                /\ total_successes_new_champ' =
                       total_successes_new_champ + IF pred_v23 = true_p_n_plus_1 THEN 1 ELSE 0
                /\ total_predictions' = total_predictions + 1
                /\ i' = i + 1
                /\ pc' = AfterIteration
    /\ UNCHANGED <<runUntouched, runMaps, prime_list, prime_set, fatal, total_law_I_failures,
                   total_v16_overrides_attempted, success_r_distribution,
                   failure_r_distribution, total_success_and_clean, total_success_and_messy,
                   total_failure_and_clean, total_failure_and_messy>>

\* the chained search of the v16.0 run loop at one index: the rank-1 prime,
\* the two predictions and whether the override counter is incremented
ChainedSearch(p_n, candidates) ==
    LET candidate_scores ==
            [j \in DOMAIN candidates |->
                LET S_cand == p_n + candidates[j]
                    gap_g_i == candidates[j] - p_n
                IN  <<get_messiness_score_v11_weighted(S_cand, gap_g_i).ret[1], candidates[j],
                      get_vmod6_score(S_cand)>>]
        sorted == SortByKey(candidate_scores,
                            [j \in DOMAIN candidate_scores |-> <<candidate_scores[j][1]>>])
        winner_v11_prime == sorted[1][2]
        winner_v11_vmod6 == sorted[1][3]
        \* the values of rank_index at which the loop reaches the override
        messy == {rank_index \in 1..MAX_SIGNATURE_SEARCH_DEPTH :
                     /\ rank_index < Len(sorted)
                     /\ RatLess(MESSY_THRESHOLD, sorted[rank_index + 1][3])}
        override_applied == RatLess(winner_v11_vmod6, CLEAN_THRESHOLD) /\ messy # {}
        rank_index == IF override_applied THEN Least(messy) ELSE 0
    IN  [winner_v11_prime |-> winner_v11_prime,
         override_applied |-> override_applied,
         prediction_v15 |->
             IF rank_index = 1 THEN sorted[2][2]
             ELSE IF rank_index = 2 /\ ~RatLess(MESSY_THRESHOLD, sorted[2][3]) THEN sorted[3][2]
             ELSE winner_v11_prime,
         prediction_v16 |->
             IF rank_index \in {1, 2, 3} THEN sorted[rank_index + 1][2]
             ELSE winner_v11_prime]

\* one iteration of the loop of run_PLR_v16_chained_signature_test
\* (total_successes_baseline is total_successes_v15_baseline,
\* total_successes_new_champ is total_successes_v16_new_champ)
ChainedStep ==
    /\ script = "PLR_Chained_Signature_Final_Engine"
    /\ pc = "loop"
    /\ IF ~InRange(AccessedIndices(script, i))
       THEN /\ pc' = "IndexError"
            /\ UNCHANGED <<i, total_predictions, total_successes_baseline,
                           total_successes_new_champ, total_v16_overrides_attempted>>
       ELSE LET true_p_n_plus_1 == At(prime_list, i + 1)
                found == ChainedSearch(At(prime_list, i), CandidatesAt(i))
            IN  /\ total_predictions' = total_predictions + 1
                /\ total_v16_overrides_attempted' =
                       total_v16_overrides_attempted + IF found.override_applied THEN 1 ELSE 0
                /\ total_successes_baseline' =
                       total_successes_baseline
                           + IF found.prediction_v15 = true_p_n_plus_1 THEN 1 ELSE 0
                /\ total_successes_new_champ' =
                       total_successes_new_champ
                           + IF found.prediction_v16 = true_p_n_plus_1 THEN 1 ELSE 0
                /\ i' = i + 1
                /\ pc' = AfterIteration
    /\ UNCHANGED <<runUntouched, runMaps, prime_list, prime_set, fatal, total_law_I_failures,
                   success_r_distribution, failure_r_distribution, total_success_and_clean,
                   total_success_and_messy, total_failure_and_clean, total_failure_and_messy>>

\* one iteration of the loop of run_PLR_v11_weighted_test
\* (total_successes_baseline is total_successes_v7_baseline,
\* total_successes_new_champ is total_successes_v11_new_champ)
WeightedStep ==
    /\ script = "v11_weighted_gap"
    /\ pc = "loop"
    /\ IF ~InRange(AccessedIndices(script, i))
       THEN /\ pc' = "IndexError"
            /\ UNCHANGED <<i, total_predictions, total_successes_baseline,
                           total_successes_new_champ>>
       ELSE LET p_n == At(prime_list, i)
                true_p_n_plus_1 == At(prime_list, i + 1)
                candidates == CandidatesAt(i)
                scores_v11 ==
                    [j \in DOMAIN candidates |->
                        <<get_messiness_score_v11_weighted(p_n + candidates[j],
                                                           candidates[j] - p_n).ret,
                          candidates[j]>>]
                scores_v7 ==
                    [j \in DOMAIN candidates |->
                        <<get_messiness_score_v7_recursive(p_n + candidates[j],
                                                           candidates[j] - p_n).ret,
                          candidates[j]>>]
            IN  /\ total_predictions' = total_predictions + 1
                /\ total_successes_new_champ' =
                       total_successes_new_champ
                           + IF get_winner_from_scores(scores_v11) = true_p_n_plus_1
                             THEN 1 ELSE 0
                /\ total_successes_baseline' =
                       total_successes_baseline
                           + IF get_winner_from_scores(scores_v7) = true_p_n_plus_1
                             THEN 1 ELSE 0
                /\ i' = i + 1
                /\ pc' = AfterIteration
    /\ UNCHANGED <<runUntouched, runMaps, prime_list, prime_set, fatal, total_law_I_failures,
                   total_v16_overrides_attempted, success_r_distribution,
                   failure_r_distribution, total_success_and_clean, total_success_and_messy,
                   total_failure_and_clean, total_failure_and_messy>>

\* the primes tied for the minimum score ("Tied-for-1st")
winners_list(candidate_scores) ==
    LET sorted == SortByKey(candidate_scores,
                            [j \in DOMAIN candidate_scores |-> candidate_scores[j][1]])
        min_score == sorted[1][1]
    IN  {sorted[j][2] : j \in {x \in DOMAIN sorted : sorted[x][1] = min_score}}

\* one iteration of the loop of run_PLR_vs_Law3_analysis_corrected
\* (total_law_I_failures is total_law_I_failures_analyzed)
Law3Step ==
    /\ script = "PLR-Failure_vs_Law3-Radius"
    /\ pc = "loop"
    /\ IF ~InRange(AccessedIndices(script, i))
       THEN /\ pc' = "IndexError"
            /\ UNCHANGED <<i, total_law_I_failures, success_r_distribution,
                           failure_r_distribution>>
       ELSE LET p_n == At(prime_list, i)
                true_p_n_plus_1 == At(prime_list, i + 1)
                found == Law3At(i)
                candidates == CandidatesAt(i)
                candidate_scores ==
                    [j \in DOMAIN candidates |->
                        <<get_messiness_score_v_mod6(p_n + candidates[j]).ret, candidates[j]>>]
                is_PLR_success == true_p_n_plus_1 \in winners_list(candidate_scores)
            IN  /\ total_law_I_failures' =
                       total_law_I_failures + IF found.is_k_composite THEN 1 ELSE 0
                /\ IF found.true_fixing_radius = -1
                   THEN UNCHANGED <<success_r_distribution, failure_r_distribution>>
                   ELSE IF is_PLR_success
                   THEN /\ success_r_distribution' =
                               Incr(success_r_distribution, found.true_fixing_radius)
                        /\ UNCHANGED failure_r_distribution
                   ELSE /\ failure_r_distribution' =
                               Incr(failure_r_distribution, found.true_fixing_radius)
                        /\ UNCHANGED success_r_distribution
                /\ i' = i + 1
                /\ pc' = AfterIteration
    /\ UNCHANGED <<runUntouched, runMaps, prime_list, prime_set, fatal, total_predictions,
                   total_successes_baseline, total_successes_new_champ,
                   total_v16_overrides_attempted, total_success_and_clean,
                   total_success_and_messy, total_failure_and_clean, total_failure_and_messy>>

\* one iteration of the loop of run_PLR_vs_PAS_correlation
CorrelationStep ==
    /\ script = "PLR-vs-PAS_Correlation"
    /\ pc = "loop"
    /\ IF ~InRange(AccessedIndices(script, i))
       THEN /\ pc' = "IndexError"
            /\ UNCHANGED <<i, total_predictions, total_success_and_clean,
                           total_success_and_messy, total_failure_and_clean,
                           total_failure_and_messy>>
       ELSE LET p_n == At(prime_list, i)
                true_p_n_plus_1 == At(prime_list, i + 1)
                candidates == CandidatesAt(i)
                candidate_scores ==
                    [j \in DOMAIN candidates |->
                        <<get_messiness_score_v7_recursive(p_n + candidates[j],
                                                           candidates[j] - p_n).ret,
                          candidates[j]>>]
                is_PLR_success == true_p_n_plus_1 \in winners_list(candidate_scores)
                min_distance_k == NearestPrimeSearch(p_n + true_p_n_plus_1, prime_set, 1)
                is_PAS_clean == min_distance_k = 1 \/ is_prime(min_distance_k, prime_set)
                counted == min_distance_k # 0
                Add(hit) == IF counted /\ hit THEN 1 ELSE 0
            IN  /\ total_predictions' = total_predictions + Add(TRUE)
                /\ total_success_and_clean' =
                       total_success_and_clean + Add(is_PLR_success /\ is_PAS_clean)
                /\ total_success_and_messy' =
                       total_success_and_messy + Add(is_PLR_success /\ ~is_PAS_clean)
                /\ total_failure_and_clean' =
                       total_failure_and_clean + Add(~is_PLR_success /\ is_PAS_clean)
                /\ total_failure_and_messy' =
                       total_failure_and_messy + Add(~is_PLR_success /\ ~is_PAS_clean)
                /\ i' = i + 1
                /\ pc' = AfterIteration
    /\ UNCHANGED <<runUntouched, runMaps, prime_list, prime_set, fatal, total_law_I_failures,
                   total_successes_baseline, total_successes_new_champ,
                   total_v16_overrides_attempted, success_r_distribution,
                   failure_r_distribution>>

\* the runs whose accesses to prime_list are followed side by side: the five
\* comparison runs, the fingerprint analysis and the Mod 30 builder
RunInit ==
    \/ ComparisonInit
    \/ AnalysisInit /\ script = "PLR_Historical_Fingerprint"
    \/ BuilderInit /\ script = "test-11_mod30"

RunNext == LoadEngineData \/ LoadAll \/ LoadAllCorrelation \/ LoadPrimesRun \/ CheckRunLoopEnd
               \/ FlipStep \/ ChainedStep \/ WeightedStep \/ Law3Step \/ CorrelationStep
               \/ LoadEngineV16 \/ LoadPrimesV16 \/ CheckLoopEnd \/ FingerprintStep
               \/ LoadPrimes \/ ScanBin \/ ScanSearch \/ BuildReport \/ SaveMap

RunSpec == RunInit /\ [][RunNext]_vars

(* ------------------------------ claims -------------------------------- *)
PostScan == pc \in {"report", "save", "done"}
MapBuilt == pc \in {"save", "done"}
\* the indices whose iteration has completed
Completed == START_INDEX..(i - 1)
SearchFinished(j) == NearestPrimeSearch(anchor_at(j), prime_set, 1) # 0

\* the true distance from a to the nearest prime
RECURSIVE TrueNearestK(_, _)
TrueNearestK(a, k) == IF IsPrime(a - k) \/ IsPrime(a + k) THEN k ELSE TrueNearestK(a, k + 1)

\* C1: after the scan, each bucket's anchor_count is the number of scanned
\* indices of that bucket whose search ended within the bound; an index whose
\* search exceeded the bound is counted nowhere.
C1_SkippedIndexNotCounted ==
    PostScan =>
        \A b \in KeyDomain(script) :
            anchor_counts[b] =
                Cardinality({j \in Completed : key_at(j) = b /\ SearchFinished(j)})

\* C2 as stated: in the built map a populated bucket holds
\* failure_count / anchor_count, an empty bucket holds infinity.
C2_RateIsPlainFraction ==
    MapBuilt =>
        \A k \in DOMAIN messiness_scores :
            /\ anchor_counts[k] > 0 =>
                   /\ IsFinite(messiness_scores[k])
                   /\ messiness_scores[k].n * anchor_counts[k]
                          = failure_counts[k] * messiness_scores[k].d
            /\ anchor_counts[k] = 0 => messiness_scores[k] = Inf

\* C2 amended: every key of the built map holds the percentage
\* (failure_count / anchor_count) * 100 when its bucket has anchors, and
\* infinity, never 0, when it has none.
C2_RateIsPercentage ==
    MapBuilt =>
        \A k \in DOMAIN messiness_scores :
            /\ anchor_counts[k] > 0 =>
                   /\ IsFinite(messiness_scores[k])
                   /\ messiness_scores[k].n * anchor_counts[k]
                          = 100 * failure_counts[k] * messiness_scores[k].d
            /\ anchor_counts[k] = 0 => messiness_scores[k] = Inf

C2_Witness ==
    /\ pc = "done"
    /\ \E k \in DOMAIN messiness_scores : failure_counts[k] > 0
    /\ \E k \in DOMAIN messiness_scores : anchor_counts[k] = 0

\* C3 as stated: the built map has every key of the classifier's domain, M
\* keys for a single-axis and 3M keys for a compound classifier.
C3_TotalDomain ==
    MapBuilt => DOMAIN messiness_scores = KeyDomain(script)

\* C3 amended: test-11 and test-8_SAVE_MAP build exactly the M residues;
\* test-10 builds exactly the 9 keys of the even residues 0, 2, 4 crossed with
\* the three categories; test-8_mod210 and the 2D map hold exactly the keys
\* of the buckets that have an anchor.
C3_DomainPerBuilder ==
    MapBuilt =>
        CASE script \in {"test-11_mod30", "test-8_SAVE_MAP"} ->
                 /\ DOMAIN messiness_scores = 0..(Modulus(script) - 1)
                 /\ Cardinality(DOMAIN messiness_scores) = Modulus(script)
          [] script = "test-10_mod6-Gap" ->
                 /\ DOMAIN messiness_scores = {0, 2, 4} \X Categories
                 /\ Cardinality(DOMAIN messiness_scores) = 9
          [] OTHER ->
                 DOMAIN messiness_scores = {k \in KeyDomain(script) : anchor_counts[k] > 0}

C3_Witness ==
    /\ pc = "done"
    /\ script = "test-10_mod6-Gap"
    /\ MAX_PRIME_PAIRS_TO_TEST >= 1
    /\ Cardinality(DOMAIN messiness_scores) = 9

\* C4: an anchor whose search ended within the bound is counted as a failure
\* exactly when the least k >= 1 with anchor - k or anchor + k prime is
\* neither 1 nor a prime.
C4_FailureIffCompositeOffset ==
    prime_list # <<>> =>
        \A b \in KeyDomain(script) :
            failure_counts[b] =
                Cardinality({j \in Completed :
                    /\ key_at(j) = b
                    /\ SearchFinished(j)
                    /\ LET k == TrueNearestK(anchor_at(j), 1) IN k # 1 /\ ~IsPrime(k)})

\* C5: at every point of a run each bucket's failure_count is at most its
\* anchor_count.
C5_FailuresAtMostAnchors ==
    script \in BuilderScripts =>
        \A b \in KeyDomain(script) : failure_counts[b] <= anchor_counts[b]

C5_Witness ==
    /\ script \in BuilderScripts
    /\ pc = "scan_bin"
    /\ \E b \in KeyDomain(script) : failure_counts[b] > 0

\* C6 as stated: a sequence shorter than start + count + search radius is
\* rejected and never scanned.
C6_RejectedBelowSearchBound ==
    (prime_file.exists /\ START_INDEX + MAX_PRIME_PAIRS_TO_TEST + SearchRadius > prime_file.lines)
        => pc \in {"load", "returned"}

\* C6 amended: the loader rejects the sequence, with the "too small"
\* diagnostic and without a scan, exactly when its length is less than
\* count + start + 10.
C6_RejectedBelowLoaderMargin ==
    (prime_file.exists /\ pc # "load") =>
        /\ (prime_file.lines < MAX_PRIME_PAIRS_TO_TEST + START_INDEX + 10)
               <=> (fatal = "prime file is too small")
        /\ fatal # "" => pc = "returned"

C6_Witness ==
    /\ pc = "returned"
    /\ prime_file.exists
    /\ prime_file.lines = MAX_PRIME_PAIRS_TO_TEST + START_INDEX + 9

\* C7: with a sequence shorter than the scan window no counter is ever
\* incremented, no map is built and no output file is written.
C7_ShortageBeforeAccumulation ==
    (prime_file.exists /\ prime_file.lines < MAX_PRIME_PAIRS_TO_TEST + START_INDEX + 10) =>
        /\ \A b \in KeyDomain(script) : anchor_counts[b] = 0 /\ failure_counts[b] = 0
        /\ total_law_I_failures = 0
        /\ messiness_scores = <<>>
        /\ ~output_file.exists
        /\ pc \notin {"scan_bin", "scan_search", "report", "save", "done"}

C7_Witness ==
    /\ fatal = "prime file is too small"
    /\ pc = "returned"
    /\ messiness_scores = <<>>
    /\ ~output_file.exists
LoadedMapFunctions == {"get_messiness_score_v_mod6", "get_messiness_score_v_mod6_gap",
                       "get_messiness_score_v7_recursive", "get_messiness_score_v11_weighted"}

\* a backing map of the function is still None
NotLoadedFor(fn) ==
    CASE fn = "get_messiness_score_v_mod6" -> MESSINESS_MAP_V_MOD6.is_none
      [] fn = "get_messiness_score_v_mod6_gap" -> MESSINESS_MAP_V_MOD6_GAP.is_none
      [] fn = "get_messiness_score_v7_recursive" ->
             \/ MESSINESS_MAP_V_MOD6.is_none
             \/ MESSINESS_MAP_V1_MOD30.is_none
             \/ MESSINESS_MAP_V3_MOD210.is_none
      [] fn = "get_messiness_score_v11_weighted" -> MESSINESS_MAP_V_MOD6.is_none
      [] OTHER -> FALSE

\* the dict a call consults and the bucket key it looks up
ConsultedDict(c) ==
    CASE c.fn = "get_messiness_score_v_mod6_gap" -> MESSINESS_MAP_V_MOD6_GAP.dict
      [] c.fn = "get_messiness_score_v7_recursive" /\ c.gap_g_n > 210 -> MESSINESS_MAP_V3_MOD210.dict
      [] c.fn = "get_messiness_score_v7_recursive" /\ c.gap_g_n > 30 /\ c.gap_g_n <= 210 ->
             MESSINESS_MAP_V1_MOD30.dict
      [] c.fn = "get_messiness_score_v2_1" -> MESSINESS_MAP_V2_1
      [] c.fn \in {"get_messiness_score", "get_messiness_score_v2"} ->
             [r \in DOMAIN FAILURE_COUNTS_MOD_30 |-> Rat(FAILURE_COUNTS_MOD_30[r], 1)]
      [] OTHER -> MESSINESS_MAP_V_MOD6.dict

ConsultedKey(c) ==
    CASE c.fn \in {"get_messiness_score_v_mod6_gap"} ->
             <<c.anchor_sn % 6, categorize_gap(c.gap_g_n)>>
      [] c.fn = "get_messiness_score_v2_1" -> <<c.anchor_sn % 30, categorize_gap(c.gap_g_n)>>
      [] c.fn = "get_messiness_score_v7_recursive" /\ c.gap_g_n > 210 -> c.anchor_sn % 210
      [] c.fn = "get_messiness_score_v7_recursive" /\ c.gap_g_n > 30 /\ c.gap_g_n <= 210 ->
             c.anchor_sn % 30
      [] c.fn \in {"get_messiness_score", "get_messiness_score_v2"} -> c.anchor_sn % 30
      [] OTHER -> c.anchor_sn % 6

KeyMissing(c) == ConsultedKey(c) \notin DOMAIN ConsultedDict(c)
\* the bucket was never observed: its key is missing, it holds the infinity
\* sentinel, or it is a residue no sum of two odd primes can have
BucketUnobserved(c) ==
    \/ KeyMissing(c)
    \/ ConsultedDict(c)[ConsultedKey(c)] = Inf
    \/ c.anchor_sn % 2 = 1

\* C8 as stated: a lookup made before its backing maps are loaded raises
\* EngineNotLoadedError.
C8_NotLoadedRaises ==
    (last_call.fn # "" /\ NotLoadedFor(last_call.fn)) =>
        last_call.raised = "EngineNotLoadedError"

\* C8 amended: a lookup made before its backing maps are loaded raises
\* nothing and returns infinity (the pair (inf, inf) for the recursive engine).
C8_NotLoadedReturnsInf ==
    (last_call.fn # "" /\ NotLoadedFor(last_call.fn)) =>
        /\ last_call.raised = ""
        /\ Len(last_call.ret) =
               (IF last_call.fn = "get_messiness_score_v7_recursive" THEN 2 ELSE 1)
        /\ \A j \in DOMAIN last_call.ret : last_call.ret[j] = Inf

C8_Witness ==
    /\ last_call.fn = "get_messiness_score_v7_recursive"
    /\ ~MESSINESS_MAP_V_MOD6.is_none
    /\ MESSINESS_MAP_V3_MOD210.is_none
    /\ last_call.ret = <<Inf, Inf>>

\* C9: no scoring function returns 0 or another finite score for an anchor
\* whose bucket was never observed, is impossible or is absent from the map.
C9_NoFiniteScoreForUnobserved ==
    (last_call.fn # "" /\ BucketUnobserved(last_call)) =>
        \/ last_call.raised # ""
        \/ last_call.ret[1] = Inf

\* C10: with its maps loaded a scoring function returns without raising, and
\* returns infinity when the bucket key is missing from the consulted map or
\* holds the infinity of an unpopulated bucket.
C10_LoadedScoreNeverRaises ==
    (last_call.fn \in LoadedMapFunctions /\ ~NotLoadedFor(last_call.fn)) =>
        /\ last_call.raised = ""
        /\ Len(last_call.ret) >= 1
        /\ (KeyMissing(last_call) \/ ConsultedDict(last_call)[ConsultedKey(last_call)] = Inf)
               => last_call.ret[1] = Inf

C10_Witness ==
    /\ last_call.fn = "get_messiness_score_v_mod6_gap"
    /\ ~MESSINESS_MAP_V_MOD6_GAP.is_none
    /\ KeyMissing(last_call)
    /\ last_call.raised = ""
    /\ last_call.ret = <<Inf>>

\* the tiers of the hierarchical score, top-down: the gap a tier needs the
\* call's gap to exceed, its map and its modulus; the last tier takes the rest
HierarchyTiers ==
    << [above |-> 210, map |-> MESSINESS_MAP_V3_MOD210.dict, modulus |-> 210],
       [above |-> 30, map |-> MESSINESS_MAP_V1_MOD30.dict, modulus |-> 30],
       [above |-> -1, map |-> MESSINESS_MAP_V_MOD6.dict, modulus |-> 6] >>
FirstMatch(gap) ==
    CHOOSE j \in 1..3 :
        /\ gap > HierarchyTiers[j].above
        /\ \A h \in 1..(j - 1) : ~(gap > HierarchyTiers[h].above)
EntryOf(tier, anchor) == DictGet(tier.map, anchor % tier.modulus, Inf)

\* C11: with its three maps loaded, the hierarchical score returns the entry,
\* for anchor mod the modulus, of the first tier top-down whose threshold the
\* gap exceeds: Mod 210 when gap > 210, else Mod 30 when gap > 30, else Mod 6;
\* gap = 210 reads the Mod 30 map and gap = 30 the Mod 6 map.
C11_FirstMatchingTier ==
    (/\ last_call.fn = "get_messiness_score_v7_recursive"
     /\ last_call.at_pc # "start"
     /\ ~NotLoadedFor(last_call.fn)) =>
        /\ last_call.raised = ""
        /\ last_call.ret[1] =
               EntryOf(HierarchyTiers[FirstMatch(last_call.gap_g_n)], last_call.anchor_sn)
        /\ last_call.gap_g_n = 210 =>
               last_call.ret[1] = EntryOf(HierarchyTiers[2], last_call.anchor_sn)
        /\ last_call.gap_g_n = 30 =>
               last_call.ret[1] = EntryOf(HierarchyTiers[3], last_call.anchor_sn)

C11_Witness ==
    /\ last_call.fn = "get_messiness_score_v7_recursive"
    /\ last_call.at_pc = "ready"
    /\ ~NotLoadedFor(last_call.fn)
    /\ last_call.gap_g_n = 210
    /\ last_call.ret[1] = EntryOf(HierarchyTiers[2], last_call.anchor_sn)
    /\ last_call.ret[1] # EntryOf(HierarchyTiers[1], last_call.anchor_sn)
    /\ last_call.ret[1] # EntryOf(HierarchyTiers[3], last_call.anchor_sn)

\* C12: the map an engine loads from the file a builder saved equals the map
\* that was built: the same typed keys (int residues, or pairs of an int
\* residue and a category of {Small, Medium, Large}) and the same value under
\* every key, infinity read back as infinity.
C12_SaveLoadRoundTrip ==
    pc = "loaded" =>
        /\ ~ReadBackGlobal(script).is_none
        /\ DOMAIN ReadBackGlobal(script).dict = DOMAIN messiness_scores
        /\ \A k \in DOMAIN messiness_scores :
               ReadBackGlobal(script).dict[k] = messiness_scores[k]
        /\ IsCompound(script) =>
               DOMAIN ReadBackGlobal(script).dict \subseteq (0..5) \X Categories
        /\ ~IsCompound(script) =>
               DOMAIN ReadBackGlobal(script).dict \subseteq 0..(Modulus(script) - 1)

C12_Witness ==
    /\ pc = "loaded"
    /\ script = "test-10_mod6-Gap"
    /\ \E k \in DOMAIN messiness_scores :
           messiness_scores[k] = Inf /\ MESSINESS_MAP_V_MOD6_GAP.dict[k] = Inf
    /\ \E k \in DOMAIN messiness_scores :
           /\ IsFinite(messiness_scores[k]) /\ messiness_scores[k].n > 0
           /\ MESSINESS_MAP_V_MOD6_GAP.dict[k] = messiness_scores[k]

OddResidues(M) == {r \in 0..(M - 1) : r % 2 = 1}
\* the keys of residue r in the domain of the script's classifier
KeysOfResidue(s, r) == IF IsCompound(s) THEN {<<r, c>> : c \in Categories} ELSE {r}

\* C13 as stated: for modulus 6 and a scan that starts past index 0, the
\* finished map holds residues 1, 3 and 5, with anchor_count 0 and
\* failure_rate infinity.
C13_OddResiduesHeldAsInfinity ==
    (MapBuilt /\ script = "test-10_mod6-Gap" /\ START_INDEX > 0) =>
        \A r \in OddResidues(6) : \A k \in KeysOfResidue(script, r) :
            /\ anchor_counts[k] = 0
            /\ k \in DOMAIN messiness_scores
            /\ messiness_scores[k] = Inf

\* C13 amended: for a scan that starts past index 0 every bucket of an odd
\* residue has anchor_count 0; the Mod 6 map of test-10 holds no key of the
\* residues 1, 3, 5 at all, and the single-axis maps of test-11 and
\* test-8_SAVE_MAP hold every odd residue with infinity.
C13_OddResiduesEmpty ==
    (MapBuilt /\ START_INDEX > 0) =>
        \A r \in OddResidues(Modulus(script)) : \A k \in KeysOfResidue(script, r) :
            /\ anchor_counts[k] = 0
            /\ script = "test-10_mod6-Gap" => k \notin DOMAIN messiness_scores
            /\ script \in {"test-11_mod30", "test-8_SAVE_MAP"} =>
                   (k \in DOMAIN messiness_scores /\ messiness_scores[k] = Inf)

C13_Witness ==
    /\ pc = "done"
    /\ script = "test-10_mod6-Gap"
    /\ START_INDEX > 0
    /\ \E k \in DOMAIN messiness_scores : anchor_counts[k] = MAX_PRIME_PAIRS_TO_TEST
    /\ \A c \in Categories : <<5, c>> \notin DOMAIN messiness_scores

\* the label the bounded search gives an anchor: "E" (inconclusive) when no
\* member of prime_set lies within the bound, else "M" (messy) when the least
\* offset is composite and "C" (clean) when it is 1 or prime
OffsetHits(a, d) == (a - d) \in prime_set \/ (a + d) \in prime_set
WithinBound(a) == \E d \in 1..SearchRadius : OffsetHits(a, d)
LeastOffset(a) ==
    CHOOSE d \in 1..SearchRadius : OffsetHits(a, d) /\ \A e \in 1..(d - 1) : ~OffsetHits(a, e)
LabelOf(a) == IF ~WithinBound(a) THEN "E"
              ELSE IF LeastOffset(a) > 1 /\ LeastOffset(a) \notin prime_set THEN "M"
              ELSE "C"
PrevAnchor(j, k) == At(prime_list, j - k) + At(prime_list, j - k + 1)
V16Failed(j) == get_v16_prediction(At(prime_list, j), CandidatesAt(j)) # At(prime_list, j + 1)
Analysed == START_INDEX..(i - 1)
TallyOf(d, key) == IF key \in DOMAIN d THEN d[key] ELSE 0

\* C14: in the analysis loops an anchor whose search exceeds the bound is
\* counted neither clean nor messy: PLR_PAS_Radius counts a failure under
\* CLEAN or MESSY only when the search of the previous anchor ended within the
\* bound, and PLR_Historical_Fingerprint marks such an anchor "E".
C14_ExceededInNeitherClass ==
    (script \in AnalysisScripts /\ pc \in {"loop", "done"}) =>
        /\ script = "PLR_PAS_Radius" =>
               /\ failures_when_prev_anchor_is_CLEAN =
                      Cardinality({j \in Analysed :
                                      V16Failed(j) /\ LabelOf(PrevAnchor(j, 1)) = "C"})
               /\ failures_when_prev_anchor_is_MESSY =
                      Cardinality({j \in Analysed :
                                      V16Failed(j) /\ LabelOf(PrevAnchor(j, 1)) = "M"})
        /\ script = "PLR_Historical_Fingerprint" =>
               LET expected == [j \in Analysed |->
                                   [k \in 1..HISTORICAL_DEPTH |-> LabelOf(PrevAnchor(j, k))]]
               IN  \A fp \in DOMAIN success_fingerprints \cup DOMAIN failure_fingerprints
                                \cup {expected[j] : j \in Analysed} :
                       TallyOf(success_fingerprints, fp) + TallyOf(failure_fingerprints, fp)
                           = Cardinality({j \in Analysed : expected[j] = fp})

RECURSIVE SumCounts(_, _)
SumCounts(counts, keys) ==
    IF keys = {} THEN 0
    ELSE LET k == CHOOSE x \in keys : TRUE
         IN  counts[k] + SumCounts(counts, keys \ {k})
\* the scanned indices whose search exceeded the bound: what a counter that
\* grows by one at each skip holds
SkippedIndices == {j \in Completed : ~SearchFinished(j)}

\* C15: the scan goes on after an index whose search exceeds the bound, and
\* when it completes the anchor_count of all buckets plus the number of
\* skipped indices equals count.
C15_AnchorsPlusSkipsIsCount ==
    (script \in BuilderScripts /\ PostScan) =>
        /\ i = loop_end_index
        /\ SumCounts(anchor_counts, KeyDomain(script)) + Cardinality(SkippedIndices)
               = MAX_PRIME_PAIRS_TO_TEST

\* the categories a gap may take by the three conditions of the bins
CategoriesFor(gap) ==
    {c \in Categories :
        /\ (c = "Small") <=> (gap < 18)
        /\ (c = "Large") <=> (gap >= 22)
        /\ (c = "Medium") <=> (18 <= gap /\ gap < 22)}
TheCategory(gap) == CHOOSE c \in CategoriesFor(gap) : TRUE
\* the indices whose anchor has been counted
Counted == IF pc = "scan_search" THEN START_INDEX..i ELSE START_INDEX..(i - 1)

\* C16: every gap has exactly one category, Small iff gap < 18, Large iff
\* gap >= 22, Medium iff 18 <= gap < 22, and the builders and the lookup
\* engines all use it: a compound builder counts each anchor under that
\* category and a compound engine looks its map up under that category.
C16_OneCategoryEverywhere ==
    /\ (script \in BuilderScripts /\ IsCompound(script) /\ prime_list # <<>>) =>
           /\ \A j \in Counted : Cardinality(CategoriesFor(gap_at(j))) = 1
           /\ \A k \in KeyDomain(script) :
                  anchor_counts[k] =
                      Cardinality({j \in Counted :
                          <<anchor_at(j) % Modulus(script), TheCategory(gap_at(j))>> = k})
    /\ (last_call.fn = "get_messiness_score_v_mod6_gap" /\ last_call.at_pc = "ready") =>
           /\ Cardinality(CategoriesFor(last_call.gap_g_n)) = 1
           /\ last_call.ret[1] =
                  DictGet(MESSINESS_MAP_V_MOD6_GAP.dict,
                          <<last_call.anchor_sn % 6, TheCategory(last_call.gap_g_n)>>, Inf)
    /\ (last_call.fn = "get_messiness_score_v2_1" /\ last_call.anchor_sn % 210 # 0) =>
           /\ Cardinality(CategoriesFor(last_call.gap_g_n)) = 1
           /\ last_call.ret[1] =
                  DictGet(MESSINESS_MAP_V2_1,
                          <<last_call.anchor_sn % 30, TheCategory(last_call.gap_g_n)>>, Inf)

C16_Witness ==
    /\ last_call.fn = "get_messiness_score_v_mod6_gap"
    /\ last_call.at_pc = "ready"
    /\ last_call.gap_g_n = 22
    /\ IsFinite(last_call.ret[1])
    /\ last_call.ret[1] = MESSINESS_MAP_V_MOD6_GAP.dict[<<last_call.anchor_sn % 6, "Large">>]
    /\ last_call.ret[1] # MESSINESS_MAP_V_MOD6_GAP.dict[<<last_call.anchor_sn % 6, "Medium">>]

\* the residue of a bucket key
ResidueOf(s, k) == IF IsCompound(s) THEN k[1] ELSE k
\* the anchors counted in the buckets whose residue is r modulo 6
AnchorsModSix(r) ==
    SumCounts(anchor_counts, {k \in KeyDomain(script) : ResidueOf(script, k) % 6 = r})

\* C17: a scan of the primes 2, 3, 5, 7, 11, ... from index 3 (p = 7) through
\* index 8 (p = 23) counts 5 anchors of residue 0 modulo 6, 1 anchor of
\* residue 4 and none of any other residue; with modulus 6 these are the
\* anchor_counts of the residues.
C17_ScanFromSevenToTwentyThree ==
    (/\ script \in BuilderScripts
     /\ START_INDEX = 3
     /\ MAX_PRIME_PAIRS_TO_TEST = 6
     /\ PostScan) =>
        /\ At(prime_list, START_INDEX) = 7
        /\ At(prime_list, i - 1) = 23
        /\ AnchorsModSix(0) = 5
        /\ AnchorsModSix(4) = 1
        /\ \A r \in {1, 2, 3, 5} : AnchorsModSix(r) = 0
        /\ Modulus(script) = 6 =>
               \A r \in 0..5 :
                   SumCounts(anchor_counts, KeysOfResidue(script, r))
                       = (IF r = 0 THEN 5 ELSE IF r = 4 THEN 1 ELSE 0)

C17_Witness ==
    /\ script = "test-10_mod6-Gap"
    /\ pc = "done"
    /\ START_INDEX = 3
    /\ MAX_PRIME_PAIRS_TO_TEST = 6
    /\ anchor_counts[<<0, "Small">>] = 5
    /\ anchor_counts[<<4, "Small">>] = 1

CompoundFunctions == {"get_messiness_score_v_mod6_gap", "get_messiness_score_v2_1"}
\* the call was made on a loaded compound engine
CompoundCall == /\ last_call.fn \in CompoundFunctions
                /\ last_call.at_pc = "ready"
\* the entry of the engine's map under (anchor mod M, category of gap),
\* infinity when the map has no such key
MapEntry(c) == DictGet(ConsultedDict(c), ConsultedKey(c), Inf)

\* C20 as stated: a compound engine returns, for every anchor and gap, the
\* failure_rate its map holds under (anchor mod M, category of gap), and
\* nothing else.
C20_CompoundScoreIsMapEntry ==
    CompoundCall => last_call.ret = <<MapEntry(last_call)>>

\* C20 amended: get_messiness_score_v_mod6_gap returns the entry of its map
\* for every anchor and gap; get_messiness_score_v2_1 returns the entry of
\* its map except for the anchors divisible by 210, for which it returns the
\* immunity score: 0.0 for a multiple of 2310, 0.0001 for any other multiple
\* of 210.
C20_MapEntryOrImmunity ==
    CompoundCall =>
        /\ last_call.raised = ""
        /\ last_call.ret =
               (IF last_call.fn = "get_messiness_score_v2_1" /\ last_call.anchor_sn % 2310 = 0
                THEN <<Rat(0, 1)>>
                ELSE IF last_call.fn = "get_messiness_score_v2_1" /\ last_call.anchor_sn % 210 = 0
                THEN <<Rat(1, 10000)>>
                ELSE <<MapEntry(last_call)>>)

C20_Witness ==
    /\ last_call.fn = "get_messiness_score_v2_1"
    /\ last_call.anchor_sn = 210
    /\ last_call.ret = <<Rat(1, 10000)>>
    /\ IsFinite(MapEntry(last_call))
    /\ MapEntry(last_call) # Rat(1, 10000)

\* C21: when the prime input file does not exist or holds fewer lines than
\* the scan window requires, the builder ends with a non-zero exit status
\* after a diagnostic that names the failed precondition.
C21_FatalEndsNonZero ==
    (script \in BuilderScripts /\ fatal # "")
        => /\ fatal \in {"prime file not found", "prime file is too small"}
           /\ ExitStatus # 0

\* the entries of a (score, prime) list that no entry beats
MinScored(list) ==
    {j \in DOMAIN list : \A k \in DOMAIN list : ~ScoreLess(list[k][1], list[j][1])}

\* C22: given (score, prime) pairs in ascending order of prime,
\* get_winner_from_scores returns the smallest prime among the candidates
\* whose score equals the minimum score, for float scores and for
\* (rate, gap) tuples alike, and None for an empty list.
C22_WinnerIsSmallestOfMinimum ==
    (script = "get_winner_from_scores" /\ pc = "returned")
        => IF call_scores = <<>> THEN call_result = 0
           ELSE call_result = Least({call_scores[j][2] : j \in MinScored(call_scores)})

\* a tie for the minimum between the second and the third tuple score
C22_Witness ==
    /\ script = "get_winner_from_scores"
    /\ pc = "returned"
    /\ Len(call_scores) = 3
    /\ Len(call_scores[1][1]) = 2
    /\ call_scores[2][1] = call_scores[3][1]
    /\ ScoreLess(call_scores[2][1], call_scores[1][1])
    /\ call_result = call_scores[2][2]

\* the candidates of the call in the order of their weighted Mod 210 score
V17Ranked ==
    SortByKey(call_candidates,
              [j \in DOMAIN call_candidates |->
                  <<RatMul(RatAdd(DictGet(MESSINESS_MAP_V3_MOD210.dict,
                                          (call_p_n + call_candidates[j]) % 210, Inf),
                                  Rat(1, 1)),
                           Rat(call_candidates[j] - call_p_n, 1))>>])

\* C23: when the rank-1 candidate is clean the v17 signature override looks
\* at the candidates ranked 2, 3 and 4 only, so get_v17_prediction returns
\* one of the four top-ranked candidates.
C23_V17ReturnsTopFour ==
    (script = "get_v17_prediction" /\ pc = "returned")
        => \E r \in 1..4 : r <= Len(V17Ranked) /\ call_result = V17Ranked[r]

\* the numbers whose membership in pset the search of anchor a tests: both
\* sides of every offset before the one that ends it, then the lower side
\* and, when that is no member, the upper side
ExaminedNumbers(a, pset) ==
    LET k_min == NearestPrimeSearch(a, pset, 1)
        last == IF k_min = 0 THEN SearchRadius ELSE k_min
    IN  {a - k : k \in 1..last} \cup
        {a + k : k \in {x \in 1..last : x < last \/ (a - x) \notin pset}}

\* C24: whenever the builder's length check passes, every membership test
\* made during the scan agrees with true primality, so the recorded minimal
\* k is the true distance to the nearest prime.
C24_MembershipIsPrimality ==
    (script \in BuilderScripts /\ pc = "scan_search")
        => /\ \A x \in ExaminedNumbers(anchor_at(i), prime_set) :
                 (x \in prime_set) <=> IsPrime(x)
           /\ NearestPrimeSearch(anchor_at(i), prime_set, 1) # 0
                 => NearestPrimeSearch(anchor_at(i), prime_set, 1) = TrueNearestK(anchor_at(i), 1)

\* C25: whenever the loader's length check passes (and the run loop's own
\* size guard, where there is one), every access to prime_list made during
\* the scan, prime_list[i+1], prime_list[i+j] for the candidates and
\* prime_list[i-k] in the history scripts, uses an index in 0 .. len - 1.
C25_AccessesInRange ==
    /\ pc # "IndexError"
    /\ pc \in {"loop", "scan_bin", "scan_search"} => InRange(AccessedIndices(script, i))

\* the fingerprint analysis has run to its end on the shortest list that its
\* loader and its guard accept, from the smallest start index
C25_Witness ==
    /\ script = "PLR_Historical_Fingerprint"
    /\ pc = "done"
    /\ START_INDEX = 2 * HISTORICAL_DEPTH
    /\ Len(prime_list) = required_primes_v16 + 1
    /\ total_predictions = MAX_PRIME_PAIRS_TO_TEST

\* C27: every prime list that load_primes_from_file accepts also passes the
\* size guard at the top of the run loop, so an accepted list is scanned and
\* not rejected with a second fatal error.
C27_AcceptedListIsScanned ==
    script \in {"PLR_Engine_Internal_Flip", "v11_weighted_gap"}
        => fatal # "PRIMES_TO_TEST is too large"

\* the indices scanned so far whose v16 prediction is not the rank-1 candidate
OverriddenIndices ==
    {idx \in START_INDEX..(i - 1) :
        LET found == ChainedSearch(At(prime_list, idx), CandidatesAt(idx))
        IN  found.prediction_v16 # found.winner_v11_prime}

\* C28: in the v16 chained-signature run loop the override counter is
\* incremented for an index exactly when prediction_v16 differs from the v11
\* rank-1 candidate, so the counter equals the number of overridden indices.
C28_CounterIsOverriddenIndices ==
    (script = "PLR_Chained_Signature_Final_Engine" /\ pc \in {"loop", "done"})
        => total_v16_overrides_attempted = Cardinality(OverriddenIndices)

\* C30: load_primes_from_file returns two values on every path, so the
\* caller's two-name unpacking never raises and a prime file that is too
\* small makes the run return cleanly after the diagnostic.
C30_UnpackingNeverRaises ==
    script \in TwoNameScripts
        => /\ pc # "ValueError"
           /\ fatal = "prime file is too small" => pc = "returned"

\* the rate the loaded Mod 6 map holds for a residue
RateOf(r) == DictGet(MESSINESS_MAP_V_MOD6.dict, r, Inf)

\* the Mod 6 map is loaded, its rates for the even residues are finite and
\* non-negative, residue 0 is not messy and residues 2 and 4 are
FlipPrecondition ==
    /\ ~MESSINESS_MAP_V_MOD6.is_none
    /\ \A r \in {0, 2, 4} : RateOf(r) # Inf /\ ~RatLess(RateOf(r), Rat(0, 1))
    /\ ~RatLess(MESSY_THRESHOLD, RateOf(0))
    /\ RatLess(MESSY_THRESHOLD, RateOf(2))
    /\ RatLess(MESSY_THRESHOLD, RateOf(4))

\* C26: for an odd prime p_n, a strictly increasing list of candidate primes
\* above it and a loaded Mod 6 map with rate(0) <= 20.0 < rate(2) and
\* 20.0 < rate(4), all finite and non-negative,
\* get_v23_internal_flip_prediction returns the first candidate.
C26_FlipReturnsFirstCandidate ==
    (script = "get_v23_internal_flip_prediction" /\ pc = "returned" /\ FlipPrecondition)
        => call_result = call_candidates[1]

\* a call under the precondition in which the v11 winner is a later candidate
\* and the flip brings the prediction back to the first one
C26_Witness ==
    /\ script = "get_v23_internal_flip_prediction"
    /\ pc = "returned"
    /\ FlipPrecondition
    /\ Len(call_candidates) = MaxListLen
    /\ get_v11_multiplicative_prediction(call_p_n, call_candidates) # call_candidates[1]
    /\ call_result = call_candidates[1]

\* the offsets within the radius at which the set holds a member
SearchHits ==
    {d \in 1..SearchRadius :
        (call_anchor_sn - d) \in call_prime_set \/ (call_anchor_sn + d) \in call_prime_set}

\* C29: for every anchor and every membership set the nearest-prime search
\* loop ends after at most 2000 iterations (SearchRadius here), it examines
\* the offsets 1, 2, ... in increasing order and none beyond the radius, and
\* a prime first found at the offset equal to the radius is returned as the
\* distance, not dropped by the failsafe.
C29_SearchStopsAtRadius ==
    (script \in SearchFunctions /\ pc = "returned")
        => /\ Len(call_examined) \in 1..SearchRadius
           /\ \A j \in 1..Len(call_examined) : call_examined[j] = j
           /\ IF SearchHits # {}
              THEN /\ call_result = Least(SearchHits)
                   /\ Len(call_examined) = Least(SearchHits)
              ELSE /\ call_result = IF script = "get_pas_k_min" THEN 0 ELSE -1
                   /\ Len(call_examined) = SearchRadius

\* the search has found its first member at the last offset it examines, with
\* another member just beyond the radius
C29_Witness ==
    /\ script = "get_pas_k_min"
    /\ pc = "returned"
    /\ SearchHits = {SearchRadius}
    /\ (call_anchor_sn + SearchRadius + 1) \in call_prime_set
    /\ call_result = SearchRadius
    /\ Len(call_examined) = SearchRadius
====
